---- MODULE Spec2Model ----
(***************************************************************************)
(* Model of the YouTube sentiment dashboard's data layer:                  *)
(*   youtube_api.py   get_video_comments, get_trending_videos,             *)
(*                    get_video_details (retry and pagination)             *)
(*   sentiment.py     score_comment                                        *)
(*   streamlit_app.py analyze_video_sentiment (filter, scoring, hourly     *)
(*                    bucketing, totals)                                   *)
(* One call is modelled per behaviour: Init chooses the function called    *)
(* and its arguments, the remote source answers each request               *)
(* nondeterministically (a page, or a failure with some status).           *)
(* Compound scores are integers in hundredths (0.05 is 5); means are kept  *)
(* as exact fractions [num, den]; timestamps are minutes.                  *)
(***************************************************************************)
EXTENDS Integers, Sequences, FiniteSets, TLC

VARIABLES op, max_results, retries, pc, attempt, all_items, page_token,
          served, log, outcome, result, error, text, summary, st_errors,
          url, REGION, sentiment_data,
          selected_comparison_regions, idx, comparison_data, region_log,
          insights,
          now, cache_data, sentiment_cache, fetches, shown

\* the state of one call of the data layer
call == <<op, max_results, retries, pc, attempt, all_items, page_token,
          served, log, outcome, result, error, text, summary, st_errors>>
\* the arguments of the helpers called on their own
args == <<url, REGION, sentiment_data>>
\* the region comparison of the dashboard
compare == <<selected_comparison_regions, idx, comparison_data, region_log,
             insights>>
\* the trending table of the dashboard: the clock, the entries of
\* st.cache_data, st.session_state.sentiment_cache, the comment fetches made so
\* far and the sentiment shown in each row
table == <<now, cache_data, sentiment_cache, fetches, shown>>
aux == <<args, compare, table>>

vars == <<call, aux>>

(* ------------------------------ bounds --------------------------------- *)
\* largest max_results / max_comments argument tried
MaxResults == 3
\* the API's page cap (100 in the source) scaled down
PageCap == 2
\* pages the source serves at most in one call
MaxPages == 2
\* failures the source produces at most while the comments of an analysed
\* video are fetched (these comments come in one page)
MaxAnalyzeFails == 1
\* comments the source holds at most for one analysed video
MaxComments == 2
\* videos the source returns at most for a trending / details request
MaxVideos == 2
\* comments on the page handed to the analysis alone
MaxWindowComments == 3
\* slots of a time series handed to generate_overall_analysis
MaxSeries == 4
\* length of a video id (11 in the source), scaled down
IdLen == 2
\* characters and fixed substrings a URL handed to extract_video_id has at most
MaxUrlLen == 5
\* characters the REGION environment value has at most
MaxRegionLen == 3
\* steps of the clock and comment fetches in one session of the dashboard
MaxTicks == 3
MaxFetches == 4

(* ----------------------------- constants ------------------------------- *)
None == "None"
DefaultRetries == 3
THRESH_POS == 5
THRESH_NEG == -5
HoursInWindow == 24
MinutesPerHour == 60
\* "@st.cache_data(ttl=300)", in seconds
CacheTtl == 300
\* seconds the clock advances by in one step
TickSeconds == 200

\* HTTP statuses the source may fail with; Transport stands for an exception
\* that is not an HttpError (socket error, malformed payload)
Transport == 0
Statuses == {404, 429, 501, 503, Transport}
\* the ones tried while the comments of an analysed video are fetched
AnalyzeStatuses == {404, 503, Transport}
OK == 200

(* --------------------------- small helpers ----------------------------- *)
Min(a, b) == IF a <= b THEN a ELSE b

\* 2 * n in place of 2 ** n
Pow2Linear(n) == 2 * n

RECURSIVE Pow2(_)
Pow2(n) == IF n <= 0 THEN 1 ELSE 2 * Pow2(n - 1)

RECURSIVE SumSeq(_)
SumSeq(s) == IF s = <<>> THEN 0 ELSE Head(s) + SumSeq(Tail(s))

RECURSIVE Concat(_)
Concat(ss) == IF ss = <<>> THEN <<>> ELSE Head(ss) \o Concat(Tail(ss))

Req(status) == [e |-> "req", v |-> status]
Backoff(secs) == [e |-> "backoff", v |-> secs]
Pause == [e |-> "pause", v |-> 1]

Requests(l) == SelectSeq(l, LAMBDA x : x.e = "req")
Backoffs(l) == SelectSeq(l, LAMBDA x : x.e = "backoff")
Fails(l) == SelectSeq(l, LAMBDA x : x.e = "req" /\ x.v # OK)

(* ---------------------- optional values (None) -------------------------- *)
\* Python's None for a value that is otherwise a list or a dict
Absent == [some |-> FALSE]
Some(v) == [some |-> TRUE, val |-> v]

\* dict.get(key, default) on a dict modelled as a record
Get(d, key, default) == IF key \in DOMAIN d THEN d[key] ELSE default

\* the empty dict {}
EmptyDict == <<>>

(* ------------------------- the remote source --------------------------- *)
\* a commentThreads item: item.snippet.topLevelComment.snippet.{textDisplay,
\* publishedAt}; a missing key is the absence of the field
Stamp(k, t, off) == [k |-> k, t |-> t, off |-> off]
NoStamp == Stamp("missing", 0, 0)
BadStamp == Stamp("bad", 0, 0)
Aware(t, off) == Stamp("aware", t, off)
Naive(t) == Stamp("naive", t, 0)

\* publishedAt values tried: missing, unparseable, and the datetimes (in
\* minutes) 00:30+00:30, 24:30 UTC, 25:30 UTC and 25:30 without offset
Stamps == {NoStamp, BadStamp, Aware(30, 30), Aware(1470, 0), Aware(1530, 0),
           Naive(1530)}

\* textDisplay values tried; NoText is a missing or empty text
NoText == ""
Texts == {NoText, "love", "meh", "hate"}

CommentItem(id, txt, stamp) == [id |-> id, textDisplay |-> txt, publishedAt |-> stamp]

\* the items a page may hold when it starts at position `from` of the thread
\* list: ids are the positions, payloads are drawn from `texts` x `stamps`
PagesFrom(from, n, texts, stamps) ==
    {[j \in 1..n |-> CommentItem(from + j, p[j][1], p[j][2])] :
        p \in [1..n -> texts \X stamps]}

\* a videos().list item; a key of the JSON object may be missing, or present
\* with the value null
Null == [isnull |-> TRUE]
IsNull(v) == "isnull" \in DOMAIN v
\* a count as the API sends it, a string of digits
Str(ds) == [str |-> ds]
Digits(n) == IF n < 10 THEN <<n>> ELSE <<n \div 10, n % 10>>
FullVideo(id) ==
    [id |-> id,
     snippet |-> [title |-> "title", channelTitle |-> "channel",
                  publishedAt |-> "2024-01-01T00:00:00Z",
                  thumbnails |-> [default |-> [url |-> "thumb"]]],
     statistics |-> [viewCount |-> Str(Digits(42)), likeCount |-> Str(Digits(7)),
                     commentCount |-> Str(Digits(0))]]
BareVideo(id) == [id |-> id]
NullVideo(id) == [id |-> id, snippet |-> Null, statistics |-> Null]
\* a snippet without channel and date and with null thumbnails, statistics
\* with one count, one null and one missing
PartVideo(id) ==
    [id |-> id,
     snippet |-> [title |-> "title", thumbnails |-> Null],
     statistics |-> [viewCount |-> Str(Digits(42)), likeCount |-> Null]]
VideoKinds == {"full", "bare", "null", "part"}
VideoLists ==
    UNION {{[j \in 1..n |-> f[j]] : f \in [1..n -> VideoKinds]}
           : n \in 0..MaxVideos}
VideoOf(kind, id) ==
    IF kind = "full" THEN FullVideo(id)
    ELSE IF kind = "bare" THEN BareVideo(id)
    ELSE IF kind = "null" THEN NullVideo(id) ELSE PartVideo(id)

(* --------------------------- youtube_api.py ---------------------------- *)
RECURSIVE IntOf(_)
\* int("42") on a digit string
IntOf(ds) == IF ds = <<>> THEN 0 ELSE 10 * IntOf(SubSeq(ds, 1, Len(ds) - 1)) + ds[Len(ds)]

\* the null is kept where the code replaces it
OrEmptyKept(v) == v

\* "x or {}": a null (or empty) dict becomes {}
OrEmpty(v) == IF IsNull(v) THEN EmptyDict ELSE v

\* "int(stats.get(key, 0) or 0)": a missing or null count is 0
IntOrZero(stats, key) ==
    IF key \notin DOMAIN stats THEN 0
    ELSE IF IsNull(stats[key]) THEN 0
    ELSE IntOf(stats[key].str)

\* the three dicts looked into (lines 145-147 / 81-83)
StatsOf(item) == OrEmpty(Get(item, "statistics", EmptyDict))
SnippetOf(item) == OrEmpty(Get(item, "snippet", EmptyDict))
ThumbnailsOf(item) == OrEmpty(Get(SnippetOf(item), "thumbnails", EmptyDict))
ThumbsOf(item) == OrEmpty(Get(ThumbnailsOf(item), "default", EmptyDict))

\* ".get" on None raises AttributeError
ParseRaises(item) ==
    \/ IsNull(StatsOf(item))
    \/ IsNull(SnippetOf(item))
    \/ IsNull(ThumbnailsOf(item))
    \/ IsNull(ThumbsOf(item))

\* the record built from one videos().list item (lines 145-158 / 81-94)
ParseVideo(item) ==
    LET stats == StatsOf(item)
        snippet == SnippetOf(item)
        thumbs == ThumbsOf(item)
    IN  [video_id |-> Get(item, "id", None),
         title |-> Get(snippet, "title", None),
         channel |-> Get(snippet, "channelTitle", None),
         published_at |-> Get(snippet, "publishedAt", None),
         thumb_url |-> Get(thumbs, "url", None),
         views |-> IntOrZero(stats, "viewCount"),
         likes |-> IntOrZero(stats, "likeCount"),
         comments |-> IntOrZero(stats, "commentCount")]

\* "e.resp.status in [429, 500, 502, 503, 504]"
RetryableListed(status) == status \in {429, 500, 502, 503, 504}

\* "status_code == 429 or (status_code and 500 <= status_code < 600)"
RetryableRange(status) == status = 429 \/ (status # 0 /\ 500 <= status /\ status < 600)

\* "per_page = min(100, max_results)"
per_page == Min(PageCap, max_results)

(* ----------------------------- sentiment.py ----------------------------- *)
\* SentimentIntensityAnalyzer.polarity_scores, an external lexicon scorer:
\* a fixed table over the texts tried, in hundredths
ScoreTexts == {"", "love", "ok", "fine", "meh", "hmm", "bad", "hate"}
Scores(c, p, u, n) == [compound |-> c, pos |-> p, neu |-> u, neg |-> n]
polarity_scores(t) ==
    CASE t = "love" -> Scores(80, 70, 30, 0)
      [] t = "ok"   -> Scores(5, 10, 90, 0)
      [] t = "fine" -> Scores(4, 8, 92, 0)
      [] t = "meh"  -> Scores(0, 0, 100, 0)
      [] t = "hmm"  -> Scores(-4, 0, 93, 7)
      [] t = "bad"  -> Scores(-5, 0, 89, 11)
      [] t = "hate" -> Scores(-60, 0, 35, 65)
      [] OTHER      -> Scores(0, 0, 0, 0)

\* strict comparisons in place of >= and <=
LabelStrict(compound) ==
    IF compound > THRESH_POS THEN "positive"
    ELSE IF compound < THRESH_NEG THEN "negative"
    ELSE "neutral"

\* label chosen by lines 23-27
Label(compound) ==
    IF compound >= THRESH_POS THEN "positive"
    ELSE IF compound <= THRESH_NEG THEN "negative"
    ELSE "neutral"

\* the text is handed to the scorer as it came
text_as_is(txt) == txt

\* line 22, "text or ''": None and the empty string both become ""
text_or_empty(txt) == IF txt.some /\ txt.val # "" THEN txt ELSE Some("")

\* the scorer iterates over its argument and raises when it is None
ScorerRaises(arg) == ~arg.some

\* score_comment(text); txt is Absent for None, Some(string) otherwise
score_comment(txt) ==
    LET arg == text_or_empty(txt)
        s == polarity_scores(IF arg.some THEN arg.val ELSE "")
    IN  [compound |-> s.compound, pos |-> s.pos, neu |-> s.neu, neg |-> s.neg,
         label |-> Label(s.compound)]

(* ------------------ streamlit_app.py: analyze_video_sentiment ----------- *)
\* a mean kept exactly: sum / len
Frac(n, d) == [num |-> n, den |-> d]
FracEq(a, b) == a.num * b.den = b.num * a.den

\* a time-series slot: None, or the mean of a bucket
NoData == [some |-> FALSE, num |-> 0, den |-> 1]
Data(n, d) == [some |-> TRUE, num |-> n, den |-> d]

\* an item with a text is kept whether or not it has a timestamp
comment_data_of_any_text(items) ==
    LET kept == SelectSeq(items, LAMBDA it : it.textDisplay # NoText)
    IN  [j \in 1..Len(kept) |->
            [text |-> kept[j].textDisplay, published_at |-> kept[j].publishedAt]]

\* lines 266-279: keep the items having both a text and a timestamp
comment_data_of(items) ==
    LET kept == SelectSeq(items, LAMBDA it :
                    it.textDisplay # NoText /\ it.publishedAt.k # "missing")
    IN  [j \in 1..Len(kept) |->
            [text |-> kept[j].textDisplay, published_at |-> kept[j].publishedAt]]

\* datetime.fromisoformat succeeds
Parseable(stamp) == stamp.k \in {"aware", "naive"}

\* lines 290-296: the parsed timestamps, in comment order
comment_times_of(cd) ==
    LET ok == SelectSeq(cd, LAMBDA c : Parseable(c.published_at))
    IN  [j \in 1..Len(ok) |-> ok[j].published_at]

\* only the comments with a parseable timestamp are scored
scores_of_timestamped(cd) ==
    LET ok == SelectSeq(cd, LAMBDA c : Parseable(c.published_at))
    IN  [j \in 1..Len(ok) |-> score_comment(Some(ok[j].text))]

\* lines 299-307
scores_of(cd) == [j \in 1..Len(cd) |-> score_comment(Some(cd[j].text))]

\* the instant a datetime denotes: local time minus its UTC offset
Instant(stamp) == stamp.t - stamp.off

\* comparing an offset-naive with an offset-aware datetime raises TypeError
MixedKinds(times) == \E i, j \in 1..Len(times) : times[i].k # times[j].k

\* max(comment_times): the first element no other element exceeds
most_recent_of(times) ==
    LET best == CHOOSE i \in 1..Len(times) :
                    /\ \A j \in 1..Len(times) : Instant(times[j]) <= Instant(times[i])
                    /\ \A j \in 1..(i - 1) : Instant(times[j]) < Instant(times[i])
    IN  times[best]

\* dt.replace(minute=0, second=0, microsecond=0): truncation of the local time
HourFloor(stamp) ==
    Stamp(stamp.k, (stamp.t \div MinutesPerHour) * MinutesPerHour, stamp.off)

\* the hour offset i is forgotten: every key is the hour of start_time
hour_key_fixed(most_recent, i) ==
    HourFloor(Stamp(most_recent.k,
                    most_recent.t - HoursInWindow * MinutesPerHour,
                    most_recent.off))

\* lines 315-322: key i (0-based) of hourly_buckets
hour_key(most_recent, i) ==
    LET start_time == Stamp(most_recent.k,
                            most_recent.t - HoursInWindow * MinutesPerHour,
                            most_recent.off)
    IN  HourFloor(Stamp(start_time.k, start_time.t + i * MinutesPerHour, start_time.off))

\* datetime equality as the dict lookup sees it
SameMoment(a, b) == a.k = b.k /\ Instant(a) = Instant(b)

\* lines 325-334: the compounds appended to the bucket of a key, in order
bucket_scores(cd, key) ==
    LET hit == SelectSeq([j \in 1..Len(cd) |-> j], LAMBDA j :
                   /\ Parseable(cd[j].published_at)
                   /\ SameMoment(HourFloor(cd[j].published_at), key))
    IN  [n \in 1..Len(hit) |-> score_comment(Some(cd[hit[n]].text)).compound]

\* lines 318-322: the keys of the dict hourly_buckets; two keys denoting the
\* same moment are one key
hourly_bucket_keys(most_recent) ==
    {hour_key(most_recent, i) : i \in 0..(HoursInWindow - 1)}

RECURSIVE sorted_keys(_)
\* sorted(hourly_buckets.keys()): ascending by the moment denoted
sorted_keys(keys) ==
    IF keys = {} THEN <<>>
    ELSE LET first == CHOOSE k \in keys : \A other \in keys : Instant(k) <= Instant(other)
         IN  <<first>> \o sorted_keys(keys \ {first})

\* the mean is taken to be the first score of the bucket
bucket_mean_of_first(b) == Data(b[1], 1)

\* lines 338-339: "sum(scores) / len(scores)" of a non-empty bucket
bucket_mean(b) == Data(SumSeq(b), Len(b))

\* lines 309-342
time_series_of(cd) ==
    LET times == comment_times_of(cd)
    IN  IF times = <<>>
        THEN [i \in 1..HoursInWindow |-> NoData]
        ELSE LET mr == most_recent_of(times)
                 keys == sorted_keys(hourly_bucket_keys(mr))
             IN  [n \in 1..Len(keys) |->
                    LET b == bucket_scores(cd, keys[n])
                    IN  IF b # <<>> THEN bucket_mean(b) ELSE NoData]

CountLabel(scores, label) ==
    Cardinality({j \in 1..Len(scores) : scores[j].label = label})

\* total counts the comments with a parseable timestamp only
summary_of_total_parsed(cd) ==
    LET scores == scores_of(cd)
    IN  [avg_sentiment |-> Frac(SumSeq([j \in 1..Len(scores) |-> scores[j].compound]),
                                Len(scores)),
         positive |-> CountLabel(scores, "positive"),
         neutral |-> CountLabel(scores, "neutral"),
         negative |-> CountLabel(scores, "negative"),
         total |-> Len(comment_times_of(cd)),
         time_series |-> time_series_of(cd)]

\* lines 344-359: the dict returned
summary_of(cd) ==
    LET scores == scores_of(cd)
    IN  [avg_sentiment |-> Frac(SumSeq([j \in 1..Len(scores) |-> scores[j].compound]),
                                Len(scores)),
         positive |-> CountLabel(scores, "positive"),
         neutral |-> CountLabel(scores, "neutral"),
         negative |-> CountLabel(scores, "negative"),
         total |-> Len(cd),
         time_series |-> time_series_of(cd)]

\* the test "if not comment_data" is missing
analyze_items_unfiltered(items) ==
    LET cd == comment_data_of(items)
    IN  IF items = <<>> THEN [raised |-> FALSE, ret |-> Absent]
        ELSE IF MixedKinds(comment_times_of(cd)) THEN [raised |-> TRUE, ret |-> Absent]
        ELSE [raised |-> FALSE, ret |-> Some(summary_of(cd))]

\* lines 262-359 on the fetched items: [raised, ret], ret the value returned
\* (Absent for None) when nothing was raised
analyze_items(items) ==
    LET cd == comment_data_of(items)
    IN  IF items = <<>> THEN [raised |-> FALSE, ret |-> Absent]
        ELSE IF cd = <<>> THEN [raised |-> FALSE, ret |-> Absent]
        ELSE IF MixedKinds(comment_times_of(cd)) THEN [raised |-> TRUE, ret |-> Absent]
        ELSE [raised |-> FALSE, ret |-> Some(summary_of(cd))]

(* ------------------- youtube_api.py: extract_video_id ------------------- *)
\* a URL is a sequence of characters and of the fixed substrings the patterns
\* look for, each taken as one element.  Characters tried: two of the id
\* alphabet [a-zA-Z0-9_-], a blank, and one outside the alphabet
IdChars == {"a", "b"}
Blank == " "
Junk == "#"
Short == "youtu.be/"
WatchQ == "youtube.com/watch?"
VEq == "v="
Embed == "youtube.com/embed/"
VPath == "youtube.com/v/"
Markers == {Short, WatchQ, VEq, Embed, VPath}
UrlTokens == IdChars \cup {Blank, Junk} \cup Markers
\* fixed substrings one URL tried holds at most
MaxMarkers == 2
UrlsTried ==
    {u \in UNION {[1..n -> UrlTokens] : n \in 0..MaxUrlLen} :
        Cardinality({i \in 1..Len(u) : u[i] \in Markers}) <= MaxMarkers}

\* the id characters an element starts with: every fixed substring starts
\* with characters of the id alphabet ("youtu", "youtube", "v"; scaled to one
\* character as the id is) and ends with a character outside it
Lead(tok) ==
    IF tok \in IdChars THEN <<tok>>
    ELSE IF tok = VEq THEN <<"v">>
    ELSE IF tok \in Markers THEN <<"y">>
    ELSE <<>>

RECURSIVE strip(_)
\* str.strip()
strip(u) ==
    IF u = <<>> THEN u
    ELSE IF Head(u) = Blank THEN strip(Tail(u))
    ELSE IF u[Len(u)] = Blank THEN strip(SubSeq(u, 1, Len(u) - 1))
    ELSE u

\* the end of the string is not looked at: missing "$"
BareIdUnanchored(u) ==
    /\ Len(u) >= IdLen
    /\ \A i \in 1..IdLen : u[i] \in IdChars

\* line 36: re.match(r'^[a-zA-Z0-9_-]{11}$', ...)
BareId(u) ==
    /\ Len(u) = IdLen
    /\ \A i \in 1..Len(u) : u[i] \in IdChars

\* "([a-zA-Z0-9_-]{11})" matched at element i: the group, or Absent
IdAt(u, i) ==
    LET run == CHOOSE k \in 0..IdLen :
                  /\ \A m \in 0..(k - 1) : i + m <= Len(u) /\ u[i + m] \in IdChars
                  /\ \A k2 \in (k + 1)..IdLen :
                        ~(\A m \in 0..(k2 - 1) : i + m <= Len(u) /\ u[i + m] \in IdChars)
    IN  IF run = IdLen THEN Some(SubSeq(u, i, i + IdLen - 1))
        ELSE IF run = IdLen - 1 /\ i + run <= Len(u) /\ Lead(u[i + run]) # <<>>
        THEN Some(SubSeq(u, i, i + run - 1) \o Lead(u[i + run]))
        ELSE Absent

\* line 41, the first pattern matched at element i
FirstPatternAt(u, i) ==
    IF u[i] \in {Short, Embed, VPath} THEN IdAt(u, i + 1)
    ELSE IF u[i] = WatchQ /\ i + 1 <= Len(u) /\ u[i + 1] = VEq THEN IdAt(u, i + 2)
    ELSE Absent

\* re.search with the first pattern: the leftmost match
search_first(u) ==
    LET hits == {i \in 1..Len(u) : FirstPatternAt(u, i).some}
    IN  IF hits = {} THEN Absent
        ELSE FirstPatternAt(u, CHOOSE i \in hits : \A j \in hits : i <= j)

\* line 42, "youtube\.com\/watch\?.*v=(...)": the leftmost "watch?", then the
\* last "v=" that an id follows, ".*" being greedy
search_second(u) ==
    LET ends(i) == {j \in (i + 1)..Len(u) : u[j] = VEq /\ IdAt(u, j + 1).some}
        hits == {i \in 1..Len(u) : u[i] = WatchQ /\ ends(i) # {}}
    IN  IF hits = {} THEN Absent
        ELSE LET i == CHOOSE h \in hits : \A g \in hits : h <= g
                 j == CHOOSE e \in ends(i) : \A f \in ends(i) : f <= e
             IN  IdAt(u, j + 1)

\* lines 15-49
extract_video_id(u) ==
    IF u = <<>> THEN Absent
    ELSE IF BareId(strip(u)) THEN Some(strip(u))
    ELSE IF search_first(u).some THEN search_first(u)
    ELSE search_second(u)

(* ------------------------- config.py: get_region ------------------------ *)
\* characters of a REGION value: ASCII letters of both cases, a digit, a
\* letter without case (such as a CJK ideograph) and the letter U+00DF, whose
\* upper case is the two letters "SS"
Ideograph == "U+4E2D"
Eszett == "U+00DF"
RegionChars == {"u", "s", "C", "1", Ideograph, Eszett}
RegionsTried ==
    {Absent} \cup {Some(v) : v \in UNION {[1..n -> RegionChars] : n \in 0..MaxRegionLen}}

\* str.isalpha() of one character
isalpha(ch) == ch \in {"u", "s", "C", Ideograph, Eszett}

\* str.upper() of one character
upper(ch) ==
    IF ch = "u" THEN <<"U">>
    ELSE IF ch = "s" THEN <<"S">>
    ELSE IF ch = Eszett THEN <<"S", "S">>
    ELSE <<ch>>

\* the default argument, "CA"
DefaultRegion == <<"C", "A">>

\* lines 20-27; env is the value of REGION, Absent when it is unset
get_region(env, default) ==
    LET raw == IF env.some /\ env.val # <<>> THEN env.val ELSE default
        kept == SelectSeq(raw, isalpha)
        letters == Concat([j \in 1..Len(kept) |-> upper(kept[j])])
    IN  IF Len(letters) >= 2 THEN SubSeq(letters, 1, 2) ELSE default

(* ---------------- streamlit_app.py: generate_overall_analysis ----------- *)
FracAdd(a, b) == Frac(a.num * b.den + b.num * a.den, a.den * b.den)
FracSub(a, b) == Frac(a.num * b.den - b.num * a.den, a.den * b.den)
\* comparisons, denominators being positive
FracGt(a, b) == a.num * b.den > b.num * a.den
FracGe(a, b) == a.num * b.den >= b.num * a.den
RECURSIVE FracSum(_)
FracSum(vs) == IF vs = <<>> THEN Frac(0, 1) ELSE FracAdd(Head(vs), FracSum(Tail(vs)))
\* "sum(vs) / len(vs)"
FracMean(vs) == LET t == FracSum(vs) IN Frac(t.num, t.den * Len(vs))

\* the 0.05 of lines 218 and 221, in hundredths
TrendMargin == 5

\* the None slots are kept, and count as 0
valid_values_unfiltered(time_series) == time_series

\* lines 210-211: "[v for v in time_series if v is not None]"
valid_values_of(time_series) == SelectSeq(time_series, LAMBDA v : v.some)

\* the split is made at ceil(n / 2)
mid_point_rounded_up(n) == (n + 1) \div 2

\* line 214, "len(valid_values) // 2"
mid_point_of(n) == n \div 2

\* lines 205-227
trend_direction_of(time_series) ==
    IF Len(time_series) > 1
    THEN LET valid_values == valid_values_of(time_series)
         IN  IF Len(valid_values) >= 2
             THEN LET mid_point == mid_point_of(Len(valid_values))
                      first_half_avg == FracMean(SubSeq(valid_values, 1, mid_point))
                      second_half_avg ==
                          FracMean(SubSeq(valid_values, mid_point + 1, Len(valid_values)))
                      diff == FracSub(second_half_avg, first_half_avg)
                  IN  IF FracGt(diff, Frac(TrendMargin, 1)) THEN "improving"
                      ELSE IF FracGt(Frac(-TrendMargin, 1), diff) THEN "declining"
                      ELSE "stable"
             ELSE "stable"
    ELSE "stable"

\* lines 207, 221, 224, 227: the phrase about the trend; the one of line 207
\* stays when the trend is not computed
trend_description_of(time_series) ==
    LET trend == trend_direction_of(time_series)
    IN  IF trend = "improving" THEN "has been improving"
        ELSE IF trend = "declining" THEN "indicates declining sentiment"
        ELSE IF Len(time_series) > 1 /\ Len(valid_values_of(time_series)) >= 2
        THEN "has remained relatively stable"
        ELSE "remained relatively stable"

\* lines 198-201: a percentage, 0 when total is 0
pct_of(count, total) == IF total > 0 THEN Frac(count * 100, total) ELSE Frac(0, 1)

\* the thresholds are compared with > in place of >=
tier_of_strict(sd) ==
    IF FracGt(pct_of(sd.positive, sd.total), Frac(60, 1)) THEN "positive"
    ELSE IF FracGt(pct_of(sd.negative, sd.total), Frac(40, 1)) THEN "mixed"
    ELSE "balanced"

\* lines 230, 238, 246: which of the three groups of templates
tier_of(sd) ==
    IF FracGe(pct_of(sd.positive, sd.total), Frac(60, 1)) THEN "positive"
    ELSE IF FracGe(pct_of(sd.negative, sd.total), Frac(40, 1)) THEN "mixed"
    ELSE "balanced"

\* lines 232-253: the f-string chosen, named by its line
template_of(tier, trend) ==
    IF tier = "positive"
    THEN IF trend = "improving" THEN 233 ELSE IF trend = "declining" THEN 235 ELSE 237
    ELSE IF tier = "mixed"
    THEN IF trend = "improving" THEN 241 ELSE IF trend = "declining" THEN 243 ELSE 245
    ELSE IF trend = "improving" THEN 249 ELSE IF trend = "declining" THEN 251 ELSE 253

\* every f-string but the one of line 241 holds "{trend_description}"
HoldsDescription(template) == template # 241

\* "{pct:.0f}": the percentage rounded to an integer, a half to the even one
fmt0(f) ==
    LET whole == f.num \div f.den
        twice == 2 * (f.num - whole * f.den)
    IN  IF twice > f.den THEN whole + 1
        ELSE IF twice < f.den THEN whole
        ELSE IF whole % 2 = 0 THEN whole ELSE whole + 1

\* lines 196-255: the text returned, as the f-string chosen and the values
\* it is filled with (tier and trend are the values the choice was made by)
generate_overall_analysis(sd) ==
    LET tier == tier_of(sd)
        trend == trend_direction_of(sd.time_series)
        template == template_of(tier, trend)
    IN  [tier |-> tier,
         trend |-> trend,
         template |-> template,
         trend_description |-> IF HoldsDescription(template)
                               THEN trend_description_of(sd.time_series) ELSE "",
         pos_pct |-> fmt0(pct_of(sd.positive, sd.total)),
         other_pct |-> IF tier = "positive" THEN 0
                       ELSE IF tier = "mixed" THEN fmt0(pct_of(sd.negative, sd.total))
                       ELSE fmt0(pct_of(sd.neutral, sd.total))]

\* summaries handed to generate_overall_analysis: slot values 0.00, 0.03,
\* 0.13 and 0.20, among which half means differ by exactly 0.05 (0.03 against
\* 0.03 and 0.13) and for which the floating-point comparison agrees with the
\* exact one; counts (positive, neutral, negative) with 60 % positive, with
\* 40 % negative, with both, with neither, and without comments
SeriesValues == {0, 3, 13, 20}
SeriesSlots == {NoData} \cup {Data(v, 1) : v \in SeriesValues}
SeriesTried == UNION {[1..n -> SeriesSlots] : n \in 0..MaxSeries}
CountsTried == {<<0, 0, 0>>, <<3, 1, 1>>, <<2, 1, 2>>, <<3, 0, 2>>, <<4, 1, 3>>}
SummaryWith(c, ts) ==
    [avg_sentiment |-> Frac(0, 1), positive |-> c[1], neutral |-> c[2],
     negative |-> c[3], total |-> c[1] + c[2] + c[3], time_series |-> ts]

(* ------------------------------- state ---------------------------------- *)
\* no helper is called on its own
ArgsIdle ==
    /\ url = <<>>
    /\ REGION = Absent
    /\ sentiment_data = Absent

\* no region comparison is under way
CompareIdle ==
    /\ selected_comparison_regions = <<>>
    /\ idx = 0
    /\ comparison_data = <<>>
    /\ region_log = <<>>
    /\ insights = Absent

\* an empty st.cache_data: no memo of fetch_trending_videos, none of
\* analyze_video_sentiment for any video
NoMemo == [trending |-> Absent, analyses |-> [v \in 1..MaxVideos |-> Absent]]

\* a session that has not rendered the trending table
TableIdle ==
    /\ now = 0
    /\ cache_data = NoMemo
    /\ sentiment_cache = [v \in 1..MaxVideos |-> Absent]
    /\ fetches = 0
    /\ shown = <<>>

AuxIdle == ArgsIdle /\ CompareIdle /\ TableIdle

Ops == {"comments", "trending", "details", "analyze", "score"}

\* retries arguments tried: none, the one of the unit test, the default
RetriesTried == {0, 1, DefaultRetries}

\* failures the source may still produce in this call
MaxFails == IF op = "analyze" THEN MaxAnalyzeFails ELSE DefaultRetries + 1
MayFail == Len(Fails(log)) < MaxFails

Init ==
    /\ op \in Ops
    /\ pc = "start"
    /\ attempt = 0
    /\ all_items = <<>>
    /\ page_token = 0
    /\ served = <<>>
    /\ log = <<>>
    /\ outcome = "none"
    /\ result = Absent
    /\ error = OK
    /\ summary = Absent
    /\ st_errors = 0
    /\ max_results \in IF op = "comments" THEN 0..MaxResults
                       ELSE IF op = "analyze" THEN {0, 1, MaxResults}
                       ELSE IF op = "trending" THEN 1..MaxVideos
                       ELSE {1}
    /\ retries \in IF op \in {"comments", "trending", "details"} THEN RetriesTried
                   ELSE {DefaultRetries}
    /\ text \in IF op = "score" THEN {Absent} \cup {Some(t) : t \in ScoreTexts}
                ELSE {Absent}
    /\ AuxIdle

\* where a finished fetch leaves the caller
AfterFetch == IF op = "analyze" THEN "fetched" ELSE "done"

Return(value, l) ==
    /\ outcome' = "returned"
    /\ result' = value
    /\ log' = l
    /\ pc' = AfterFetch
    /\ UNCHANGED error

Raise(status, l) ==
    /\ outcome' = "raised"
    /\ error' = status
    /\ log' = l
    /\ pc' = AfterFetch
    /\ UNCHANGED result

(* ------------------------- get_video_comments --------------------------- *)
IsComments == op \in {"comments", "analyze", "paging"}
\* the call is followed through any number of pages: the source is not held
\* to MaxPages, and of what has happened only the last page served and the
\* requests since the last pause between pages are kept
Paging == op = "paging"
LastOnly(pages) == IF Paging THEN <<pages[Len(pages)]>> ELSE pages

\* payloads of the comments served: every text and timestamp when the comments
\* are analysed, one fixed payload when they are only fetched
ServedTexts == IF op = "analyze" THEN Texts ELSE {"meh"}
ServedStamps == IF op = "analyze" THEN Stamps ELSE {Aware(0, 0)}
\* the items of the pages served so far, in order
ServedItems(pages) == Concat([j \in 1..Len(pages) |-> pages[j].items])
RoomFor == IF op = "analyze" THEN MaxComments - Len(ServedItems(served)) ELSE per_page

\* the slice is forgotten
TruncateNot(items, n) == items

\* "all_items[:max_results]"
Truncate(items, n) == SubSeq(items, 1, n)

\* lines 183-188: entering the function, first test of the while condition
CommentsEnter ==
    /\ IsComments /\ pc = "start"
    /\ IF Len(all_items) < max_results
       THEN /\ pc' = "try"
            /\ UNCHANGED <<outcome, result, error, log>>
       ELSE Return(Some(all_items), log)
    /\ UNCHANGED <<op, max_results, retries, attempt, all_items, page_token,
                   served, text, summary, st_errors>>
    /\ UNCHANGED aux

\* the next page is requested at once
sleep_between_pages_skipped(l) == l

\* line 233, "time.sleep(0.1)"
sleep_between_pages(l) == Append(l, Pause)

\* lines 203-204, 219-233: the request succeeds with a page of n items and,
\* when more is TRUE, a nextPageToken
CommentsPage ==
    /\ IsComments /\ pc = "try"
    /\ Paging \/ Len(served) < MaxPages
    /\ \E n \in 0..Min(per_page, RoomFor), more \in BOOLEAN :
       \E items \in PagesFrom(Len(all_items), n, ServedTexts, ServedStamps) :
          LET got == all_items \o items
              l1 == Append(log, Req(OK))
          IN  /\ more => (Paging \/ Len(served) + 1 < MaxPages)
              /\ more => op \in {"comments", "paging"}
              /\ served' = LastOnly(Append(served, [items |-> items, next |-> more]))
              /\ all_items' = got
              /\ IF Len(got) >= max_results
                 THEN /\ Return(Some(Truncate(got, max_results)), l1)
                      /\ UNCHANGED <<page_token, attempt>>
                 ELSE IF ~more
                 THEN /\ Return(Some(got), l1)
                      /\ page_token' = 0
                      /\ UNCHANGED attempt
                 ELSE /\ page_token' = Len(served) + 2
                      /\ log' = sleep_between_pages(IF Paging THEN <<>> ELSE l1)
                      /\ attempt' = 0
                      /\ pc' = "try"
                      /\ UNCHANGED <<outcome, result, error>>
    /\ UNCHANGED <<op, max_results, retries, text, summary, st_errors>>
    /\ UNCHANGED aux

\* the ceiling is reached one failure early
RetriesExhaustedEarly(n) == n >= retries

\* line 206, "if attempt > retries", on the incremented attempt
RetriesExhausted(n) == n > retries

\* lines 205-217: the request fails
CommentsFail ==
    /\ IsComments /\ pc = "try" /\ MayFail
    /\ \E status \in (IF op = "analyze" THEN AnalyzeStatuses ELSE Statuses) :
          LET l1 == Append(log, Req(status))
          IN  IF status = Transport
              THEN Raise(status, l1) /\ UNCHANGED attempt
              ELSE /\ attempt' = attempt + 1
                   /\ IF RetriesExhausted(attempt + 1)
                      THEN Raise(status, l1)
                      ELSE IF RetryableRange(status)
                      THEN /\ log' = Append(l1, Backoff(Pow2(attempt + 1 - 1)))
                           /\ UNCHANGED <<pc, outcome, result, error>>
                      ELSE Raise(status, l1)
    /\ UNCHANGED <<op, max_results, retries, all_items, page_token, served,
                   text, summary, st_errors>>
    /\ UNCHANGED aux

(* ------------------------- get_trending_videos -------------------------- *)
\* lines 127-138: entering the function; range(retries) may be empty, and then
\* the function body ends without a return statement
TrendingEnter ==
    /\ op = "trending" /\ pc = "start"
    /\ IF retries > 0
       THEN /\ pc' = "try"
            /\ UNCHANGED <<outcome, result, error, log>>
       ELSE Return(Absent, log)
    /\ UNCHANGED <<op, max_results, retries, attempt, all_items, page_token,
                   served, text, summary, st_errors>>
    /\ UNCHANGED aux

\* lines 140-161: the request succeeds
TrendingOk ==
    /\ op = "trending" /\ pc = "try"
    /\ \E kinds \in VideoLists :
          LET items == [j \in 1..Len(kinds) |-> VideoOf(kinds[j], j)]
          IN  /\ Len(kinds) <= max_results
              /\ served' = Append(served, [items |-> items, next |-> FALSE])
              /\ IF \E j \in 1..Len(items) : ParseRaises(items[j])
                 THEN Raise(Transport, Append(log, Req(OK)))
                 ELSE Return(Some([j \in 1..Len(items) |-> ParseVideo(items[j])]),
                             Append(log, Req(OK)))
    /\ UNCHANGED <<op, max_results, retries, attempt, all_items, page_token,
                   text, summary, st_errors>>
    /\ UNCHANGED aux

\* lines 163-169: the request fails; after the last iteration of the for loop
\* the function ends without a return statement
TrendingFail ==
    /\ op = "trending" /\ pc = "try" /\ MayFail
    /\ \E status \in Statuses :
          LET l1 == Append(log, Req(status))
          IN  IF status # Transport /\ RetryableListed(status)
              THEN /\ attempt' = attempt + 1
                   /\ IF attempt + 1 < retries
                      THEN /\ log' = Append(l1, Backoff(Pow2(attempt)))
                           /\ UNCHANGED <<pc, outcome, result, error>>
                      ELSE Return(Absent, Append(l1, Backoff(Pow2(attempt))))
              ELSE Raise(status, l1) /\ UNCHANGED attempt
    /\ UNCHANGED <<op, max_results, retries, all_items, page_token, served,
                   text, summary, st_errors>>
    /\ UNCHANGED aux

(* -------------------------- get_video_details --------------------------- *)
\* lines 64-72
DetailsEnter ==
    /\ op = "details" /\ pc = "start"
    /\ IF retries > 0
       THEN /\ pc' = "try"
            /\ UNCHANGED <<outcome, result, error, log>>
       ELSE Return(Absent, log)
    /\ UNCHANGED <<op, max_results, retries, attempt, all_items, page_token,
                   served, text, summary, st_errors>>
    /\ UNCHANGED aux

\* lines 74-94: the request succeeds, with the video or with no item
DetailsOk ==
    /\ op = "details" /\ pc = "try"
    /\ \E kinds \in VideoLists :
          LET items == [j \in 1..Len(kinds) |-> VideoOf(kinds[j], j)]
          IN  /\ Len(kinds) <= 1
              /\ served' = Append(served, [items |-> items, next |-> FALSE])
              /\ Return(IF items = <<>> THEN Absent
                        ELSE IF ParseRaises(items[1]) THEN Absent
                        ELSE Some(ParseVideo(items[1])),
                        Append(log, Req(OK)))
    /\ UNCHANGED <<op, max_results, retries, attempt, all_items, page_token,
                   text, summary, st_errors>>
    /\ UNCHANGED aux

\* lines 96-104: the request fails; every way out returns None
DetailsFail ==
    /\ op = "details" /\ pc = "try" /\ MayFail
    /\ \E status \in Statuses :
          LET l1 == Append(log, Req(status))
          IN  IF status # Transport /\ RetryableListed(status)
              THEN /\ attempt' = attempt + 1
                   /\ IF attempt + 1 < retries
                      THEN /\ log' = Append(l1, Backoff(Pow2(attempt)))
                           /\ UNCHANGED <<pc, outcome, result, error>>
                      ELSE Return(Absent, Append(l1, Backoff(Pow2(attempt))))
              ELSE Return(Absent, l1) /\ UNCHANGED attempt
    /\ UNCHANGED <<op, max_results, retries, all_items, page_token, served,
                   text, summary, st_errors>>
    /\ UNCHANGED aux

(* ------------------- analyze_video_sentiment, after the fetch ----------- *)
\* the exception of the fetch is swallowed without a report
analyze_outcome_silent(fetch_raised, fetched) ==
    IF fetch_raised THEN [raised |-> FALSE, ret |-> Absent]
    ELSE analyze_items(fetched.val)

\* lines 260-363, the try block as a whole: an exception of the fetch is
\* handled like one of the analysis
analyze_outcome(fetch_raised, fetched) ==
    IF fetch_raised THEN [raised |-> TRUE, ret |-> Absent]
    ELSE analyze_items(fetched.val)

\* lines 262-363: the fetched items are analysed; an exception raised by the
\* fetch or by the analysis is reported with st.error and None is returned
Analyze ==
    /\ op = "analyze" /\ pc = "fetched"
    /\ LET a == analyze_outcome(outcome = "raised", result)
       IN  /\ summary' = a.ret
           /\ st_errors' = IF a.raised THEN st_errors + 1 ELSE st_errors
    /\ pc' = "done"
    /\ UNCHANGED <<op, max_results, retries, attempt, all_items, page_token,
                   served, log, outcome, result, error, text>>
    /\ UNCHANGED aux

(* ------------------------------ score_comment --------------------------- *)
\* lines 21-28: an exception of the scorer leaves score_comment unhandled
ScoreCall ==
    /\ op = "score" /\ pc = "start"
    /\ IF ScorerRaises(text_or_empty(text))
       THEN Raise(Transport, log)
       ELSE Return(Some(score_comment(text)), log)
    /\ UNCHANGED <<op, max_results, retries, attempt, all_items, page_token,
                   served, text, summary, st_errors>>
    /\ UNCHANGED aux

Next ==
    \/ CommentsEnter
    \/ CommentsPage
    \/ CommentsFail
    \/ TrendingEnter
    \/ TrendingOk
    \/ TrendingFail
    \/ DetailsEnter
    \/ DetailsOk
    \/ DetailsFail
    \/ Analyze
    \/ ScoreCall

Spec == Init /\ [][Next]_vars

(* ------------- analyze_video_sentiment on a fetched page ---------------- *)
\* the analysis alone, started where get_video_comments has returned one page
\* of up to MaxWindowComments comments: texts with a score, timestamps that
\* are unparseable, 01:10, 24:10, 24:30 and 25:30 UTC, and 25:00+00:30
WindowTexts == {"love", "hate"}
WindowStamps == {BadStamp, Aware(70, 0), Aware(1450, 0), Aware(1470, 0),
                 Aware(1530, 0), Aware(1500, 30)}

InitBuckets ==
    /\ op = "analyze"
    /\ pc = "fetched"
    /\ attempt = 0
    /\ page_token = 0
    /\ max_results = MaxWindowComments
    /\ retries = DefaultRetries
    /\ \E n \in 0..MaxWindowComments :
          \E items \in PagesFrom(0, n, WindowTexts, WindowStamps) :
             /\ all_items = items
             /\ served = <<[items |-> items, next |-> FALSE]>>
             /\ result = Some(items)
    /\ log = <<Req(OK)>>
    /\ outcome = "returned"
    /\ error = OK
    /\ text = Absent
    /\ summary = Absent
    /\ st_errors = 0
    /\ AuxIdle

NextBuckets == Analyze

SpecBuckets == InitBuckets /\ [][NextBuckets]_vars

(* ------------- get_video_comments against an unbounded source ----------- *)
\* one call of get_video_comments, each request of which the source answers
\* with a page (with or without a nextPageToken) or with a failure
InitPaging ==
    /\ op = "paging"
    /\ pc = "start"
    /\ attempt = 0
    /\ all_items = <<>>
    /\ page_token = 0
    /\ served = <<>>
    /\ log = <<>>
    /\ outcome = "none"
    /\ result = Absent
    /\ error = OK
    /\ summary = Absent
    /\ st_errors = 0
    /\ max_results \in 0..MaxResults
    /\ retries \in RetriesTried
    /\ text = Absent
    /\ AuxIdle

NextPaging ==
    \/ CommentsEnter
    \/ CommentsPage
    \/ CommentsFail

\* the call keeps running and the source answers every request
SpecPaging == InitPaging /\ [][NextPaging]_vars /\ WF_vars(NextPaging)

(* ---------------------- helpers called on their own -------------------- *)
HelperOps == {"narrate", "extract", "region"}

\* the variables of the fetches, which no helper touches
CallIdle ==
    /\ pc = "start"
    /\ attempt = 0
    /\ all_items = <<>>
    /\ page_token = 0
    /\ served = <<>>
    /\ log = <<>>
    /\ outcome = "none"
    /\ result = Absent
    /\ error = OK
    /\ summary = Absent
    /\ st_errors = 0
    /\ max_results = 1
    /\ retries = DefaultRetries
    /\ text = Absent

InitHelpers ==
    /\ op \in HelperOps
    /\ CallIdle
    /\ url \in IF op = "extract" THEN UrlsTried ELSE {<<>>}
    /\ REGION \in IF op = "region" THEN RegionsTried ELSE {Absent}
    /\ sentiment_data \in IF op = "narrate"
                          THEN {Some(SummaryWith(c, ts)) : c \in CountsTried, ts \in SeriesTried}
                          ELSE {Absent}
    /\ CompareIdle
    /\ TableIdle

\* lines 196-255
NarrateCall ==
    /\ op = "narrate" /\ pc = "start"
    /\ Return(Some(generate_overall_analysis(sentiment_data.val)), log)
    /\ UNCHANGED <<op, max_results, retries, attempt, all_items, page_token,
                   served, text, summary, st_errors>>
    /\ UNCHANGED aux

\* youtube_api.py, lines 15-49
ExtractCall ==
    /\ op = "extract" /\ pc = "start"
    /\ Return(extract_video_id(url), log)
    /\ UNCHANGED <<op, max_results, retries, attempt, all_items, page_token,
                   served, text, summary, st_errors>>
    /\ UNCHANGED aux

\* config.py, lines 20-27
RegionCall ==
    /\ op = "region" /\ pc = "start"
    /\ Return(Some(get_region(REGION, DefaultRegion)), log)
    /\ UNCHANGED <<op, max_results, retries, attempt, all_items, page_token,
                   served, text, summary, st_errors>>
    /\ UNCHANGED aux

NextHelpers ==
    \/ NarrateCall
    \/ ExtractCall
    \/ RegionCall

SpecHelpers == InitHelpers /\ [][NextHelpers]_vars

(* -------------- streamlit_app.py: the region comparison ----------------- *)
\* region names selected in the multiselect (keys of REGION_OPTIONS), two or
\* more and distinct
SelectionsTried ==
    {<<"Canada", "United States">>, <<"United States", "Canada">>,
     <<"Canada", "United States", "India">>, <<"India", "Canada", "United States">>}

\* what fetch_trending_videos returns: None (retries exhausted), or a list of
\* up to MaxVideos parsed videos, possibly empty
TrendingResults ==
    {Absent} \cup {Some([j \in 1..n |-> ParseVideo(FullVideo(j))]) : n \in 0..MaxVideos}

\* what analyze_video_sentiment returns for a video: None, or the summary of
\* one positive comment, or of two negative comments and a positive one
AnalysesTried ==
    {Absent} \cup
    {Some(summary_of(cd)) :
        cd \in {<<[text |-> "love", published_at |-> BadStamp]>>,
                <<[text |-> "hate", published_at |-> BadStamp],
                  [text |-> "hate", published_at |-> BadStamp],
                  [text |-> "love", published_at |-> BadStamp]>>}}

\* an entry is made for every region with videos
has_sentiments_always(region_sentiments) == TRUE

\* line 639, "if region_sentiments:"
has_sentiments(region_sentiments) == region_sentiments # <<>>

\* the mean is weighted by the number of comments of each video
mean_avg_sentiment_weighted(region_sentiments) ==
    Frac(SumSeq([j \in 1..Len(region_sentiments) |-> region_sentiments[j].avg_sentiment.num]),
         SumSeq([j \in 1..Len(region_sentiments) |-> region_sentiments[j].avg_sentiment.den]))

\* line 644: "sum(s["avg_sentiment"] for s in region_sentiments) / len(...)"
mean_avg_sentiment(region_sentiments) ==
    FracMean([j \in 1..Len(region_sentiments) |-> region_sentiments[j].avg_sentiment])

\* lines 641-656: the entry of a region
region_entry(region_videos, region_sentiments) ==
    LET Sum(f(_)) == SumSeq([j \in 1..Len(region_sentiments) |-> f(region_sentiments[j])])
        Total(sd) == sd.total
        Positive(sd) == sd.positive
        Neutral(sd) == sd.neutral
        Negative(sd) == sd.negative
        total_comments == Sum(Total)
    IN  [avg_sentiment |-> mean_avg_sentiment(region_sentiments),
         positive |-> Sum(Positive),
         neutral |-> Sum(Neutral),
         negative |-> Sum(Negative),
         total |-> total_comments,
         positive_pct |-> pct_of(Sum(Positive), total_comments),
         neutral_pct |-> pct_of(Sum(Neutral), total_comments),
         negative_pct |-> pct_of(Sum(Negative), total_comments),
         video_count |-> Len(region_videos)]

\* "comparison_data[region_name] = ...": a dict keeps its keys in the order
\* in which they were first set
Put(d, key, value) ==
    IF \E j \in 1..Len(d) : d[j].key = key
    THEN [j \in 1..Len(d) |-> IF d[j].key = key THEN [key |-> key, value |-> value] ELSE d[j]]
    ELSE Append(d, [key |-> key, value |-> value])

InitCompare ==
    /\ op = "compare"
    /\ CallIdle
    /\ ArgsIdle
    /\ selected_comparison_regions \in SelectionsTried
    /\ idx = 0
    /\ comparison_data = <<>>
    /\ region_log = <<>>
    /\ insights = Absent
    /\ TableIdle

\* lines 621-656: one turn of the loop over the regions selected.  The fetch
\* returns fetched, and the analysis of its j-th video returns analyses[j]
CompareRegion ==
    /\ op = "compare" /\ pc = "start"
    /\ idx < Len(selected_comparison_regions)
    /\ \E fetched \in TrendingResults :
          LET region_name == selected_comparison_regions[idx + 1]
              region_videos == IF fetched.some THEN fetched.val ELSE <<>>
          IN  \E analyses \in [1..Len(region_videos) -> AnalysesTried] :
                 LET kept == SelectSeq(analyses, LAMBDA a : a.some)
                     region_sentiments == [j \in 1..Len(kept) |-> kept[j].val]
                 IN  /\ comparison_data' =
                           IF region_videos # <<>> /\ has_sentiments(region_sentiments)
                           THEN Put(comparison_data, region_name,
                                    region_entry(region_videos, region_sentiments))
                           ELSE comparison_data
                     /\ region_log' = Append(region_log,
                                             [region |-> region_name, videos |-> fetched,
                                              analyses |-> analyses])
    /\ idx' = idx + 1
    /\ pc' = IF idx + 1 = Len(selected_comparison_regions) THEN "done" ELSE pc
    /\ UNCHANGED <<op, max_results, retries, attempt, all_items, page_token,
                   served, log, outcome, result, error, text, summary, st_errors>>
    /\ UNCHANGED <<args, table, selected_comparison_regions, insights>>

\* line 627: get_trending_videos raises (an error that is not retried), which
\* nothing catches: the script run ends without a comparison
CompareFetchRaises ==
    /\ op = "compare" /\ pc = "start"
    /\ idx < Len(selected_comparison_regions)
    /\ \E status \in {s \in Statuses : s = Transport \/ ~RetryableListed(s)} :
          Raise(status, log)
    /\ UNCHANGED <<op, max_results, retries, attempt, all_items, page_token,
                   served, text, summary, st_errors>>
    /\ UNCHANGED aux

\* the last of the maximal elements is returned
max_by_last(regions, keys) ==
    regions[CHOOSE i \in 1..Len(regions) :
               /\ \A j \in 1..Len(regions) : FracGe(keys[i], keys[j])
               /\ \A j \in (i + 1)..Len(regions) : FracGt(keys[i], keys[j])]

\* "max(regions, key=...)", keys[j] being the key of regions[j]: the first
\* of the maximal elements
max_by(regions, keys) ==
    regions[CHOOSE i \in 1..Len(regions) :
               /\ \A j \in 1..Len(regions) : FracGe(keys[i], keys[j])
               /\ \A j \in 1..(i - 1) : FracGt(keys[i], keys[j])]

\* "min(regions, key=...)": the first of the minimal elements
min_by(regions, keys) ==
    regions[CHOOSE i \in 1..Len(regions) :
               /\ \A j \in 1..Len(regions) : FracGe(keys[j], keys[i])
               /\ \A j \in 1..(i - 1) : FracGt(keys[j], keys[i])]

\* lines 662-750: after the loop, when comparison_data is not empty, the
\* regions are listed in the order of the dict and the insights are taken
CompareInsights ==
    /\ op = "compare" /\ pc = "done" /\ outcome # "raised"
    /\ comparison_data # <<>>
    /\ ~insights.some
    /\ LET regions == [j \in 1..Len(comparison_data) |-> comparison_data[j].key]
           data(r) == comparison_data[CHOOSE j \in 1..Len(comparison_data) :
                                         comparison_data[j].key = r].value
           avg == [j \in 1..Len(regions) |-> data(regions[j]).avg_sentiment]
           total == [j \in 1..Len(regions) |-> Frac(data(regions[j]).total, 1)]
       IN  insights' = Some([regions |-> regions,
                             best_region |-> max_by(regions, avg),
                             worst_region |-> min_by(regions, avg),
                             most_comments |-> max_by(regions, total)])
    /\ UNCHANGED <<call, args, table>>
    /\ UNCHANGED <<selected_comparison_regions, idx, comparison_data, region_log>>

NextCompare ==
    \/ CompareRegion
    \/ CompareFetchRaises
    \/ CompareInsights

SpecCompare == InitCompare /\ [][NextCompare]_vars

(* --------------- streamlit_app.py: the trending table ------------------- *)
\* an entry of st.cache_data is served while it is younger than the ttl
Live(memo) == memo.some /\ now - memo.val.at < CacheTtl

\* what analyze_video_sentiment returns from a comment fetch: None (absent
\* TRUE) or a summary, known by the number of the fetch and its time
Analysis(n, absent) == [fetch |-> n, at |-> now, absent |-> absent]

RECURSIVE Collect(_, _, _, _)
\* lines 797-819, from video v to the last of the list: st holds
\* sentiment_cache (sc), the memo of analyze_video_sentiment (memo), the
\* fetches made (f) and the rows collected; absent[v] tells whether a fetch
\* for v finds no usable comments
Collect(st, v, last, absent) ==
    IF v > last THEN st
    ELSE IF st.sc[v].some
    THEN Collect([st EXCEPT !.rows = Append(@, st.sc[v].val)], v + 1, last, absent)
    ELSE IF Live(st.memo[v])
    THEN Collect([st EXCEPT !.sc[v] = Some(st.memo[v].val.val),
                            !.rows = Append(@, st.memo[v].val.val)],
                 v + 1, last, absent)
    ELSE LET analysed == Analysis(st.f + 1, absent[v])
         IN  Collect([st EXCEPT !.sc[v] = Some(analysed),
                                !.memo[v] = Some([val |-> analysed, at |-> now]),
                                !.f = st.f + 1,
                                !.rows = Append(@, analysed)],
                     v + 1, last, absent)

\* lines 778-819: one run of the script in trending mode, st.cache_data
\* being cd when it starts.  fetch_trending_videos is served from its memo or
\* fetches a list of n videos (None when n is 0, and the script stops)
RunScript(cd) ==
    \E n \in 0..MaxVideos, absent \in [1..MaxVideos -> BOOLEAN] :
       LET fresh == ~Live(cd.trending)
           videos == IF fresh THEN n ELSE cd.trending.val.val
           trending == IF fresh THEN Some([val |-> n, at |-> now]) ELSE cd.trending
           st == Collect([sc |-> sentiment_cache, memo |-> cd.analyses,
                          f |-> fetches, rows |-> <<>>],
                         1, videos, absent)
       IN  /\ st.f <= MaxFetches
           /\ cache_data' = [trending |-> trending, analyses |-> st.memo]
           /\ sentiment_cache' = st.sc
           /\ fetches' = st.f
           /\ shown' = st.rows

InitTable ==
    /\ op = "table"
    /\ CallIdle
    /\ ArgsIdle
    /\ CompareIdle
    /\ TableIdle

\* a rerun of the script: the first load, or any interaction with a widget
Rerun ==
    /\ op = "table"
    /\ RunScript(cache_data)
    /\ UNCHANGED <<call, args, compare, now>>

\* lines 178-180: "st.cache_data.clear()" and "st.rerun()"
RefreshData ==
    /\ op = "table"
    /\ RunScript(NoMemo)
    /\ UNCHANGED <<call, args, compare, now>>

\* time passes
Tick ==
    /\ op = "table"
    /\ now < MaxTicks * TickSeconds
    /\ now' = now + TickSeconds
    /\ UNCHANGED <<call, args, compare, cache_data, sentiment_cache, fetches, shown>>

NextTable ==
    \/ Rerun
    \/ RefreshData
    \/ Tick

SpecTable == InitTable /\ [][NextTable]_vars

(* ======================= properties of the analysis ===================== *)
\* the analysis has returned
Analyzed == op = "analyze" /\ pc = "done"
\* the comments that reached the aggregator (comment_data)
Usable == comment_data_of(result.val)
\* compound of the j-th usable comment, as the scorer gives it
CompoundOf(j) == polarity_scores(Usable[j].text).compound
Populated(ts) == {n \in 1..Len(ts) : ts[n].some}

\* C1: in every summary analyze_video_sentiment returns,
\* positive + neutral + negative = total.
C1_CountsSumToTotal ==
    (Analyzed /\ summary.some) =>
        summary.val.positive + summary.val.neutral + summary.val.negative
            = summary.val.total

C1_Witness ==
    /\ Analyzed /\ summary.some
    /\ summary.val.total = 2
    /\ summary.val.positive = 1
    /\ summary.val.negative = 1
    /\ \E j \in 1..Len(Usable) : ~Parseable(Usable[j].published_at)

\* C2: every summary returned has a time series of exactly 24 slots, whatever
\* the comments' number and timestamps.
C2_TimeSeriesHas24Slots ==
    (Analyzed /\ summary.some) => Len(summary.val.time_series) = 24

C2_Witness ==
    /\ Analyzed /\ summary.some
    /\ Len(summary.val.time_series) = 24
    /\ \E i, j \in 1..Len(Usable) :
          /\ Usable[i].published_at = Aware(1530, 0)
          /\ Usable[j].published_at = Aware(30, 30)

\* C3: when all the comments of a non-empty input have the same parseable
\* timestamp, the time series has exactly one populated slot, holding the mean
\* compound of all the comments, and 23 "no data" slots.
C3_SameTimestampOneSlot ==
    (/\ Analyzed /\ summary.some
     /\ \A j \in 1..Len(Usable) :
           /\ Parseable(Usable[j].published_at)
           /\ Usable[j].published_at = Usable[1].published_at)
    => LET ts == summary.val.time_series
       IN  /\ Cardinality(Populated(ts)) = 1
           /\ Cardinality({n \in 1..Len(ts) : ~ts[n].some}) = 23
           /\ \A n \in Populated(ts) :
                 FracEq(ts[n], Frac(SumSeq([j \in 1..Len(Usable) |-> CompoundOf(j)]),
                                    Len(Usable)))

\* C4: the analysis returns None when the fetch yields no comment and when no
\* comment has both a text and a timestamp; a summary has total >= 1.
C4_AbsentWhenNothingUsable ==
    Analyzed =>
        /\ (/\ outcome = "returned"
            /\ \A j \in 1..Len(result.val) :
                  \/ result.val[j].textDisplay = NoText
                  \/ result.val[j].publishedAt = NoStamp)
           => ~summary.some
        /\ summary.some => summary.val.total >= 1

C4_Witness ==
    /\ Analyzed /\ outcome = "returned"
    /\ Len(result.val) = 2
    /\ result.val[1].textDisplay = NoText /\ result.val[1].publishedAt # NoStamp
    /\ result.val[2].textDisplay # NoText /\ result.val[2].publishedAt = NoStamp
    /\ ~summary.some

\* C5: total, the category counts and avgSentiment are taken over all the
\* comments that reach the aggregator, whatever their timestamps; with no
\* parseable timestamp the time series is 24 "no data" slots and the counts
\* and the average are still produced.
C5_TotalsIgnoreTimestamps ==
    (Analyzed /\ summary.some) =>
        LET all == 1..Len(Usable)
            v == summary.val
        IN  /\ v.total = Len(Usable)
            /\ v.positive = Cardinality({j \in all : CompoundOf(j) >= 5})
            /\ v.negative = Cardinality({j \in all : CompoundOf(j) <= -5})
            /\ v.neutral = Cardinality({j \in all : CompoundOf(j) > -5 /\ CompoundOf(j) < 5})
            /\ v.avg_sentiment.den = Len(Usable)
            /\ v.avg_sentiment.num = SumSeq([j \in all |-> CompoundOf(j)])
            /\ (\A j \in all : ~Parseable(Usable[j].published_at))
               => (Len(v.time_series) = 24 /\ Populated(v.time_series) = {})

C5_Witness ==
    /\ Analyzed /\ summary.some
    /\ \A j \in 1..Len(Usable) : ~Parseable(Usable[j].published_at)
    /\ summary.val.total = 2
    /\ summary.val.positive = 1
    /\ summary.val.avg_sentiment = Frac(20, 2)
    /\ Populated(summary.val.time_series) = {}

(* ========================= properties of score_comment ================== *)
\* C6: score_comment labels positive iff compound >= 0.05, negative iff
\* compound <= -0.05, neutral otherwise, and returns the scorer's compound,
\* pos, neu and neg unchanged.
C6_LabelThresholds ==
    (op = "score" /\ pc = "done") =>
        LET s == polarity_scores(IF text.some THEN text.val ELSE "")
            r == result.val
        IN  /\ (r.label = "positive") <=> (s.compound >= 5)
            /\ (r.label = "negative") <=> (s.compound <= -5)
            /\ (r.label = "neutral") <=> (s.compound > -5 /\ s.compound < 5)
            /\ r.compound = s.compound /\ r.pos = s.pos
            /\ r.neu = s.neu /\ r.neg = s.neg

C6_Witness ==
    /\ op = "score" /\ pc = "done"
    /\ text = Some("ok")
    /\ result.val.compound = 5
    /\ result.val.label = "positive"

(* ========================= properties of the fetchers =================== *)
\* statuses of the requests made so far, 200 for a success
StatusSeq == [j \in 1..Len(Requests(log)) |-> Requests(log)[j].v]
\* durations of the backoff sleeps so far
BackoffSeq == [j \in 1..Len(Backoffs(log)) |-> Backoffs(log)[j].v]
Ended == outcome # "none"

\* C7: with the default retry ceiling, get_video_comments and
\* get_trending_videos answer a source failing twice with 503 and then
\* succeeding with the successful result, after exactly 3 requests and 2
\* backoff sleeps of 1 then 2 units; a source answering 404 is requested once,
\* with no sleep, and the error is raised.
C7_RetryThenSucceedAnd404 ==
    (op \in {"comments", "trending"} /\ retries = DefaultRetries) =>
        /\ (Ended /\ StatusSeq = <<503, 503, 200>>) =>
              /\ outcome = "returned" /\ result.some
              /\ Len(result.val) = Min(max_results, Len(served[1].items))
              /\ log = <<Req(503), Backoff(1), Req(503), Backoff(2), Req(200)>>
        /\ (StatusSeq # <<>> /\ StatusSeq[1] = 404) =>
              /\ log = <<Req(404)>>
              /\ outcome = "raised" /\ error = 404

C7_Witness ==
    /\ op = "trending" /\ retries = DefaultRetries /\ pc = "done"
    /\ StatusSeq = <<503, 503, 200>>
    /\ BackoffSeq = <<1, 2>>
    /\ outcome = "returned" /\ result.some /\ Len(result.val) = 2

\* C8: get_video_comments returns the first min(max_results, N) items, in
\* source order, of the concatenation of the source's pages, N counting the
\* items up to and including the first page without a next-page token; never
\* more than max_results items, an overshooting last page being truncated.
C8_FirstItemsInOrder ==
    (op = "comments" /\ outcome = "returned") =>
        LET all == ServedItems(served)
            n == Min(max_results, Len(all))
        IN  /\ result.some
            /\ result.val = SubSeq(all, 1, n)
            /\ Len(result.val) <= max_results
            /\ \A j \in 1..Len(result.val) : result.val[j].id = j
            \* no page is requested past the first page without a token
            /\ \A j \in 1..(Len(served) - 1) : served[j].next
            \* and the pages are followed up to it unless max_results is reached
            /\ (served # <<>> /\ served[Len(served)].next) => Len(all) >= max_results

C8_Witness ==
    /\ op = "comments" /\ outcome = "returned"
    /\ max_results = 3
    /\ Len(served) = 2
    /\ Len(ServedItems(served)) = 4
    /\ Len(result.val) = 3

\* C9: when every attempt of get_trending_videos fails with a retryable
\* status until the retry ceiling is exhausted, the call raises the HttpError;
\* it does not return a value.
C9_ExhaustionRaises ==
    (/\ op = "trending" /\ pc = "done"
     /\ Len(StatusSeq) >= 1 /\ Len(StatusSeq) = retries
     /\ \A j \in 1..Len(StatusSeq) :
           StatusSeq[j] = 429 \/ (StatusSeq[j] >= 500 /\ StatusSeq[j] < 600))
    => outcome = "raised"

\* a request failed in this call and no request succeeded after it
FetchFailed == StatusSeq # <<>> /\ StatusSeq[Len(StatusSeq)] # 200
NothingUsable == outcome = "returned" /\ comment_data_of(result.val) = <<>>

\* C10 (as stated): get_video_details returns absent only when the source
\* reports no such video, analyze_video_sentiment only when there are no
\* usable comments; an error is never reported as the same absent result.
C10_AbsentOnlyWhenNoData ==
    /\ (op = "details" /\ pc = "done" /\ retries >= 1 /\ ~result.some) =>
          (~FetchFailed /\ served # <<>> /\ served[Len(served)].items = <<>>)
    /\ (Analyzed /\ ~summary.some) => (~FetchFailed /\ NothingUsable)

\* C10 (amended): get_video_details returns absent when the source reports no
\* such video and also whenever no request succeeds; a video is returned only
\* from a successful request that holds one.  analyze_video_sentiment returns
\* absent when there are no usable comments and also when the fetch or the
\* analysis raises; it reports an error with st.error exactly when one was
\* raised, so that an absent result without a report means no usable
\* comments, and a summary is returned only from a successful fetch.
C10_AbsentOrErrorAlike ==
    /\ (op = "details" /\ pc = "done") =>
          /\ FetchFailed => ~result.some
          /\ result.some =>
                (/\ StatusSeq[Len(StatusSeq)] = 200
                 /\ served[Len(served)].items # <<>>)
    /\ Analyzed =>
          /\ outcome = "raised" => (~summary.some /\ st_errors = 1)
          /\ (~summary.some /\ st_errors = 0) => NothingUsable
          /\ summary.some => (outcome = "returned" /\ st_errors = 0)

C10_Witness ==
    /\ Analyzed
    /\ outcome = "raised" /\ error = 404
    /\ ~summary.some /\ st_errors = 1

(* ------------------------------- C20 ------------------------------------ *)
\* position of the last pause between pages before position i of the log
LastPauseBefore(l, i) ==
    LET ps == {j \in 1..(i - 1) : l[j].e = "pause"}
    IN  IF ps = {} THEN 0 ELSE CHOOSE j \in ps : \A k \in ps : k <= j

\* how many requests of the page of position i have failed up to position i
FailureNo(l, i) ==
    Cardinality({j \in (LastPauseBefore(l, i) + 1)..i : l[j].e = "req" /\ l[j].v # OK})

Http429or5xx(status) == status = 429 \/ status \div 100 = 5

\* C20: for each page fetched by get_video_comments with ceiling R = retries,
\* the n-th failure of the page, when its status is 429 or 5xx and n <= R, is
\* followed by a sleep of 2^(n-1) and then by a new request; every other
\* failure (the (R+1)-th, or one with another status or without a status)
\* ends the call at once with that error, without a sleep or another request;
\* so a page sees at most R+1 requests and R sleeps.
C20_PageRetryPolicy ==
    IsComments =>
       \A i \in 1..Len(log) :
          (log[i].e = "req" /\ log[i].v # OK) =>
             LET n == FailureNo(log, i)
             IN  /\ n <= retries + 1
                 /\ IF Http429or5xx(log[i].v) /\ n <= retries
                    THEN /\ i < Len(log)
                         /\ log[i + 1] = Backoff(2 ^ (n - 1))
                         /\ IF i + 1 < Len(log) THEN log[i + 2].e = "req"
                            ELSE pc = "try"
                    ELSE /\ i = Len(log)
                         /\ pc # "try"
                         /\ outcome = "raised" /\ error = log[i].v

C20_Witness ==
    /\ op = "comments" /\ retries = 1 /\ pc = "done"
    /\ log = <<Req(OK), Pause, Req(501), Backoff(1), Req(429)>>
    /\ outcome = "raised" /\ error = 429

(* ------------------------------- C16 ------------------------------------ *)
\* C16: score_comment called with a missing text (None) raises nothing and
\* returns what it returns for the empty string, a neutral record.
C16_NoneScoredAsEmpty ==
    (op = "score" /\ pc = "done" /\ ~text.some) =>
        /\ outcome = "returned"
        /\ result = Some(score_comment(Some("")))
        /\ result.val.label = "neutral"

C16_Witness ==
    /\ op = "score" /\ pc = "done" /\ ~text.some
    /\ outcome = "returned" /\ result.some /\ result.val.compound = 0

(* ------------------------------- C15 ------------------------------------ *)
\* the block is present and not null
HasBlock(d, key) == key \in DOMAIN d /\ ~IsNull(d[key])
\* the field as sent, None when its block or the field itself is missing
Copied(has, d, key) == IF has /\ key \in DOMAIN d THEN d[key] ELSE None
\* the count as an integer, 0 when it or its block is missing or null
CountIs(n, has, d, key) ==
    IF has /\ HasBlock(d, key) THEN Digits(n) = d[key].str ELSE n = 0

\* C15: when the request of get_trending_videos succeeds the call returns
\* one record per item of the response, in the order of the response; the
\* record copies id, title, channel, publishedAt and the default thumbnail
\* URL and holds the three counts as integers; a statistics, snippet or
\* thumbnails block that is missing or null gives counts of 0 and absent
\* fields, and the call does not fail.
C15_OneRecordPerItem ==
    (op = "trending" /\ pc = "done" /\ served # <<>>) =>
        LET items == served[1].items
        IN  /\ outcome = "returned" /\ result.some
            /\ Len(result.val) = Len(items)
            /\ \A j \in 1..Len(items) :
                  LET it == items[j]
                      v == result.val[j]
                      sn == HasBlock(it, "snippet")
                      st == HasBlock(it, "statistics")
                      th == sn /\ HasBlock(it.snippet, "thumbnails")
                               /\ HasBlock(it.snippet.thumbnails, "default")
                  IN  /\ v.video_id = it.id
                      /\ v.title = Copied(sn, Get(it, "snippet", Null), "title")
                      /\ v.channel = Copied(sn, Get(it, "snippet", Null), "channelTitle")
                      /\ v.published_at = Copied(sn, Get(it, "snippet", Null), "publishedAt")
                      /\ v.thumb_url =
                            IF th THEN Copied(TRUE, it.snippet.thumbnails.default, "url")
                            ELSE None
                      /\ CountIs(v.views, st, Get(it, "statistics", Null), "viewCount")
                      /\ CountIs(v.likes, st, Get(it, "statistics", Null), "likeCount")
                      /\ CountIs(v.comments, st, Get(it, "statistics", Null), "commentCount")

C15_Witness ==
    /\ op = "trending" /\ pc = "done" /\ outcome = "returned" /\ result.some
    /\ Len(served) = 1 /\ Len(served[1].items) = 2
    /\ IsNull(Get(served[1].items[1], "snippet", EmptyDict))
    /\ HasBlock(served[1].items[2], "statistics")
    /\ result.val[1].title = None /\ result.val[1].views = 0
    /\ result.val[2].video_id = 2 /\ result.val[2].views = 42
    /\ result.val[2].title = "title" /\ result.val[2].likes = 0

(* ---------------------------- C18, C19 ---------------------------------- *)
\* the usable comments with a parseable timestamp, and those of them whose
\* timestamp denotes the latest instant
Stamped == {j \in 1..Len(Usable) : Parseable(Usable[j].published_at)}
Latest ==
    {j \in Stamped :
        \A i \in Stamped : Instant(Usable[i].published_at) <= Instant(Usable[j].published_at)}
FirstLatest == CHOOSE j \in Latest : \A i \in Latest : j <= i
\* the moment denoted by a local time t, at offset off, truncated to the hour
HourOf(t, off) == (t \div 60) * 60 - off
\* the comments whose hour is the hour of start + k hours, start = end - 24h
SlotMembers(end, k) ==
    {j \in Stamped :
        HourOf(Usable[j].published_at.t, Usable[j].published_at.off)
            = HourOf(end.t - 24 * 60 + k * 60, end.off)}
RECURSIVE SumCompounds(_)
SumCompounds(S) ==
    IF S = {} THEN 0
    ELSE LET j == CHOOSE x \in S : TRUE
         IN  CompoundOf(j) + SumCompounds(S \ {j})
\* slot k holds the mean of the comments of its hour, "no data" without one
SlotsFollow(end) ==
    \A k \in 0..23 :
       LET slot == summary.val.time_series[k + 1]
           members == SlotMembers(end, k)
       IN  IF members = {} THEN ~slot.some
           ELSE /\ slot.some
                /\ slot.num * Cardinality(members) = SumCompounds(members) * slot.den

InAnchorWindow(j) ==
    /\ Instant(Usable[FirstLatest].published_at) - 24 * 60
          <= Instant(Usable[j].published_at)
    /\ Instant(Usable[j].published_at) <= Instant(Usable[FirstLatest].published_at)
\* the comment is counted in a populated slot of the returned time series
Contributes(j) ==
    \E k \in 0..23 :
       /\ j \in SlotMembers(Usable[FirstLatest].published_at, k)
       /\ summary.val.time_series[k + 1].some

\* C19: a scored comment with a parseable timestamp contributes to a slot of
\* the time series if and only if its timestamp lies in the 24 hours ending
\* at the most recent comment's timestamp; the most recent comment always
\* contributes.
C19_ContributesIffInWindow ==
    (Analyzed /\ summary.some /\ Stamped # {}) =>
        /\ \A j \in Stamped : Contributes(j) <=> InAnchorWindow(j)
        /\ Contributes(FirstLatest)

(* ------------------------------- C13 ------------------------------------ *)
Narrated == op = "narrate" /\ pc = "done" /\ result.some
\* the valid values handed in, in order, and their two halves
ValidIn == SelectSeq(sentiment_data.val.time_series, LAMBDA v : v.some)
FirstHalf == SubSeq(ValidIn, 1, Len(ValidIn) \div 2)
SecondHalf == SubSeq(ValidIn, Len(ValidIn) \div 2 + 1, Len(ValidIn))
Increasing(vs) == \A j \in 1..(Len(vs) - 1) : FracGt(vs[j + 1], vs[j])
Decreasing(vs) == \A j \in 1..(Len(vs) - 1) : FracGt(vs[j], vs[j + 1])
Constant(vs) == \A i, j \in 1..Len(vs) : FracEq(vs[i], vs[j])
\* mean(SecondHalf) - mean(FirstHalf) exceeds m hundredths
HalvesRiseBy(m) ==
    FracSum(SecondHalf).num * FracSum(FirstHalf).den * Len(FirstHalf)
      - FracSum(FirstHalf).num * FracSum(SecondHalf).den * Len(SecondHalf)
    > m * FracSum(FirstHalf).den * FracSum(SecondHalf).den
          * Len(FirstHalf) * Len(SecondHalf)
HalvesFallBy(m) ==
    FracSum(FirstHalf).num * FracSum(SecondHalf).den * Len(SecondHalf)
      - FracSum(SecondHalf).num * FracSum(FirstHalf).den * Len(FirstHalf)
    > m * FracSum(FirstHalf).den * FracSum(SecondHalf).den
          * Len(FirstHalf) * Len(SecondHalf)

\* C13: generate_overall_analysis reports "improving" when the valid values
\* of the time series (two or more) are strictly increasing, "declining" when
\* they are strictly decreasing, and "stable" when they are constant.
C13_TrendFollowsOrder ==
    (Narrated /\ Len(ValidIn) >= 2) =>
        /\ Increasing(ValidIn) => result.val.trend = "improving"
        /\ Decreasing(ValidIn) => result.val.trend = "declining"
        /\ Constant(ValidIn) => result.val.trend = "stable"

\* C13 (amended): with two or more valid values, the trend is "improving"
\* exactly when the mean of the second half of the valid values exceeds the
\* mean of the first floor(n/2) of them by more than 0.05, "declining" exactly
\* when it is lower by more than 0.05, and "stable" otherwise, in particular
\* when the values are constant; a strictly increasing or decreasing sequence
\* whose half means differ by 0.05 or less is "stable".
C13_TrendFollowsHalfMeans ==
    (Narrated /\ Len(ValidIn) >= 2) =>
        /\ result.val.trend = "improving" <=> HalvesRiseBy(5)
        /\ result.val.trend = "declining" <=> HalvesFallBy(5)
        /\ result.val.trend = "stable" <=> (~HalvesRiseBy(5) /\ ~HalvesFallBy(5))
        /\ Constant(ValidIn) => result.val.trend = "stable"

C13_Witness ==
    /\ Narrated
    /\ sentiment_data.val.time_series = <<Data(0, 1), NoData, Data(3, 1), Data(20, 1)>>
    /\ Increasing(ValidIn)
    /\ result.val.trend = "improving"

(* ------------------------------- C12 ------------------------------------ *)
Extracted == op = "extract" /\ pc = "done"
Ids == [1..IdLen -> IdChars]
\* the ids that follow element i of the URL (none or one): IdLen characters
\* of the alphabet, the last of which may be the one a fixed substring starts
\* with
FollowersOf(i) ==
    IF i + IdLen > Len(url) THEN {}
    ELSE IF \E m \in 1..(IdLen - 1) : url[i + m] \notin IdChars THEN {}
    ELSE IF url[i + IdLen] \in IdChars THEN {SubSeq(url, i + 1, i + IdLen)}
    ELSE IF url[i + IdLen] \in Markers
    THEN {SubSeq(url, i + 1, i + IdLen - 1) \o Lead(url[i + IdLen])}
    ELSE {}
\* the ids the URL shows: after "youtu.be/", "embed/" or "v/", or after a
\* "v=" that comes after "watch?"
ShownIds ==
    UNION {FollowersOf(i) : i \in {k \in 1..Len(url) : url[k] \in {Short, Embed, VPath}}}
    \cup UNION {FollowersOf(j) :
                  j \in {k \in 1..Len(url) :
                           url[k] = VEq /\ \E i \in 1..(k - 1) : url[i] = WatchQ}}
IsBare == \E id \in Ids : strip(url) = id

\* C12: extract_video_id returns the id for a bare id, for a youtu.be URL,
\* for a watch?v= URL and for an embed URL; it returns absent for an input
\* of none of these shapes; and whatever it returns has exactly the length
\* of an id and only characters of the id alphabet.
C12_ExtractsTheId ==
    Extracted =>
        /\ \A id \in Ids :
              url \in {id, <<Blank>> \o id \o <<Blank>>, <<Short>> \o id,
                       <<WatchQ, VEq>> \o id, <<Embed>> \o id,
                       <<Junk, WatchQ, VEq>> \o id, <<Junk, Short>> \o id}
                 => result = Some(id)
        /\ result.some <=> (IsBare \/ ShownIds # {})
        /\ result.some =>
              /\ Len(result.val) = IdLen
              /\ \A i \in 1..Len(result.val) : result.val[i] \in IdChars \cup {"y", "v"}
              /\ IF IsBare THEN result.val = strip(url) ELSE result.val \in ShownIds

C12_Witness ==
    /\ Extracted
    /\ url = <<WatchQ, Junk, VEq, "a", "b">>
    /\ result = Some(<<"a", "b">>)

(* ------------------------------- C17 ------------------------------------ *)
UppercaseLetters == {"U", "S", "C", "A"}
\* the letters of the REGION value, in order
LettersIn == IF REGION.some THEN SelectSeq(REGION.val, isalpha) ELSE <<>>

\* C17: get_region always returns exactly two uppercase letters: the first
\* two letters of the REGION value, non-letters removed, in upper case, or
\* "CA" when REGION is unset or holds fewer than two letters.
C17_TwoUppercaseLetters ==
    (op = "region" /\ pc = "done") =>
        /\ Len(result.val) = 2
        /\ \A i \in 1..2 : result.val[i] \in UppercaseLetters
        /\ Len(LettersIn) < 2 => result.val = <<"C", "A">>

(* ------------------------------- C11 ------------------------------------ *)
\* the comparison has run through every region selected
Compared == op = "compare" /\ pc = "done" /\ outcome # "raised"
\* the regions of the result mapping
KeysOf(d) == {d[j].key : j \in 1..Len(d)}
\* how many videos of the i-th region gave a summary
UsableVideos(i) ==
    Cardinality({j \in 1..Len(region_log[i].analyses) : region_log[i].analyses[j].some})

\* C11: when the comparison is complete, a region selected is in the result
\* mapping exactly when at least one of its trending videos gave a summary;
\* a region whose videos gave none is left out rather than entered with zeros.
C11_RegionListedIffUsable ==
    Compared =>
        /\ Len(region_log) = Len(selected_comparison_regions)
        /\ \A i \in 1..Len(region_log) :
              /\ region_log[i].region = selected_comparison_regions[i]
              /\ region_log[i].region \in KeysOf(comparison_data) <=> UsableVideos(i) >= 1
        /\ KeysOf(comparison_data) \subseteq
              {selected_comparison_regions[i] : i \in 1..Len(selected_comparison_regions)}
        /\ Cardinality(KeysOf(comparison_data)) = Len(comparison_data)

C11_Witness ==
    /\ Compared
    /\ selected_comparison_regions = <<"Canada", "United States">>
    /\ KeysOf(comparison_data) = {"Canada"}
    /\ Len(region_log[2].analyses) = 2 /\ UsableVideos(2) = 0

(* ------------------------------- C14 ------------------------------------ *)
\* C14: when Refresh Data is pressed, every sentiment shown in the table by
\* the run that follows comes from a comment fetch made after the press, and
\* whenever the table is rendered no sentiment shown (an absent one included)
\* comes from a fetch older than the cache lifetime of 300 seconds.
C14_ShownIsFresh ==
    [][/\ RefreshData => \A r \in 1..Len(shown') : shown'[r].fetch > fetches
       /\ (Rerun \/ RefreshData) => \A r \in 1..Len(shown') : now - shown'[r].at < 300]_vars

(* ------------------------------- C21 ------------------------------------ *)
RECURSIVE page_fetch(_, _, _, _)
\* youtube_api.py, lines 199-217: the retry loop of one page of
\* get_video_comments, run on the responses `statuses` with ceiling R from the
\* attempt counter n and the log l; [ended, kind, log]
page_fetch(R, statuses, n, l) ==
    IF statuses = <<>> THEN [ended |-> FALSE, kind |-> "none", log |-> l]
    ELSE LET status == Head(statuses)
             l1 == Append(l, Req(status))
         IN  IF status = OK THEN [ended |-> TRUE, kind |-> "returned", log |-> l1]
             ELSE IF status = Transport THEN [ended |-> TRUE, kind |-> "raised", log |-> l1]
             ELSE IF n + 1 > R THEN [ended |-> TRUE, kind |-> "raised", log |-> l1]
             ELSE IF RetryableRange(status)
             THEN page_fetch(R, Tail(statuses), n + 1, Append(l1, Backoff(Pow2(n))))
             ELSE [ended |-> TRUE, kind |-> "raised", log |-> l1]

\* the first page of get_video_comments is fetched as page_fetch says
PageFetchIsCommentsPage ==
    (op = "comments" /\ pc # "start" /\ max_results >= 1
     /\ \A i \in 1..Len(log) : log[i] # Pause) =>
        LET p == page_fetch(retries, StatusSeq, 0, <<>>)
        IN  /\ p.log = log
            /\ p.ended = Ended
            /\ Ended => p.kind = outcome

\* C21: a call of get_trending_videos that has ended has made the requests
\* and the backoff sleeps, and has ended in the kind of outcome (returned or
\* raised), that one page fetch of get_video_comments makes and ends in for the
\* same retry ceiling and the same responses of the source.
C21_SameRetryPolicy ==
    (op = "trending" /\ Ended /\ (served # <<>> => outcome = "returned")) =>
        LET p == page_fetch(retries, StatusSeq, 0, <<>>)
        IN  /\ p.ended
            /\ Len(Requests(p.log)) = Len(StatusSeq)
            /\ [j \in 1..Len(Backoffs(p.log)) |-> Backoffs(p.log)[j].v] = BackoffSeq
            /\ p.kind = outcome

(* ------------------------------- C22 ------------------------------------ *)
\* C22: every call of get_video_comments ends, by returning or by raising,
\* whatever the source answers to each request: a page or a failure.
C22_Terminates == <>(outcome # "none")

(* ------------------------------- C23 ------------------------------------ *)
Pauses(l) == SelectSeq(l, LAMBDA x : x.e = "pause")

\* C23: in get_video_comments one fixed delay follows every page that is
\* accepted and followed by the request of another page, and each delay
\* stands between a page accepted and the next request; no delay follows the
\* last page fetched, whether the call ends there because max_results is
\* reached or because the page has no next-page token.
C23_OneDelayBetweenPages ==
    op = "comments" =>
        /\ \A i \in 1..Len(log) :
              /\ log[i] = Req(OK) =>
                    IF i = Len(log) THEN outcome = "returned"
                    ELSE log[i + 1] = Pause /\ (i + 1 < Len(log) => log[i + 2].e = "req")
              /\ log[i].e = "pause" =>
                    /\ log[i] = Pause
                    /\ i > 1 /\ log[i - 1] = Req(OK)
                    /\ i = Len(log) => (pc = "try" /\ outcome = "none")
        /\ outcome = "returned" =>
              /\ Len(Pauses(log)) = IF served = <<>> THEN 0 ELSE Len(served) - 1
              /\ log # <<>> => log[Len(log)] = Req(OK)
              /\ served # <<>> =>
                    \/ Len(ServedItems(served)) >= max_results
                    \/ ~served[Len(served)].next

C23_Witness ==
    /\ op = "comments" /\ outcome = "returned" /\ retries = 1
    /\ log = <<Req(OK), Pause, Req(503), Backoff(1), Req(OK)>>
    /\ Len(served) = 2 /\ served[1].next /\ Len(result.val) = max_results

(* ------------------------------- C24 ------------------------------------ *)
\* the fetched items having both a text body and a publish timestamp
HasBoth(it) == it.textDisplay # NoText /\ it.publishedAt # NoStamp
WithBoth == SelectSeq(result.val, HasBoth)
BothCompounds == [j \in 1..Len(WithBoth) |-> polarity_scores(WithBoth[j].textDisplay).compound]

\* C24: the analysis of the fetched items is the analysis of the items
\* having both a text body and a publish timestamp: an item lacking one of
\* them is not scored and changes neither total, nor a category count, nor
\* avgSentiment, nor the time series, and every item having both is scored
\* and counted.
C24_ItemsLackingFieldDropped ==
    (Analyzed /\ outcome = "returned" /\ st_errors = 0) =>
        /\ summary = analyze_items(WithBoth).ret
        /\ summary.some <=> WithBoth # <<>>
        /\ summary.some =>
              /\ summary.val.total = Len(WithBoth)
              /\ summary.val.positive + summary.val.neutral + summary.val.negative
                    = Len(WithBoth)
              /\ summary.val.positive
                    = Cardinality({j \in 1..Len(WithBoth) : BothCompounds[j] >= THRESH_POS})
              /\ summary.val.negative
                    = Cardinality({j \in 1..Len(WithBoth) : BothCompounds[j] <= THRESH_NEG})
              /\ summary.val.avg_sentiment = Frac(SumSeq(BothCompounds), Len(WithBoth))

C24_Witness ==
    /\ Analyzed /\ summary.some
    /\ Len(result.val) = 2
    /\ result.val[1] = CommentItem(1, "hate", NoStamp)
    /\ result.val[2] = CommentItem(2, "love", Aware(1530, 0))
    /\ summary.val.total = 1 /\ summary.val.positive = 1 /\ summary.val.negative = 0
    /\ summary.val.avg_sentiment = Frac(80, 1)

(* ------------------------------- C25 ------------------------------------ *)
\* the valid values, in hundredths, and the sums of the first floor(n/2) of
\* them and of the rest
ValidNums == [j \in 1..Len(ValidIn) |-> ValidIn[j].num]
FirstCount == Len(ValidIn) \div 2
RestCount == Len(ValidIn) - FirstCount
FirstSum == SumSeq(SubSeq(ValidNums, 1, FirstCount))
RestSum == SumSeq(SubSeq(ValidNums, FirstCount + 1, Len(ValidNums)))
\* diff = RestSum / RestCount - FirstSum / FirstCount against m hundredths
DiffAbove(m) == RestSum * FirstCount - FirstSum * RestCount > m * FirstCount * RestCount
DiffBelow(m) == RestSum * FirstCount - FirstSum * RestCount < m * FirstCount * RestCount

\* C25: generate_overall_analysis splits the valid values of the time
\* series, in order, into the first floor(n/2) and the rest, and with diff =
\* mean(rest) - mean(first) gives "improving" iff diff > 0.05, "declining"
\* iff diff < -0.05 and "stable" otherwise; with fewer than two valid values
\* it gives "stable".
C25_DirectionFromHalves ==
    Narrated =>
        result.val.trend =
            IF Len(ValidIn) < 2 THEN "stable"
            ELSE IF DiffAbove(5) THEN "improving"
            ELSE IF DiffBelow(-5) THEN "declining"
            ELSE "stable"

\* three valid values around a slot without data, split 1 + 2, whose half
\* means differ by exactly 0.05
C25_Witness ==
    /\ Narrated
    /\ sentiment_data.val.time_series = <<Data(3, 1), NoData, Data(3, 1), Data(13, 1)>>
    /\ FirstCount = 1 /\ RestCount = 2
    /\ ~DiffAbove(5) /\ DiffAbove(4)
    /\ result.val.trend = "stable"

(* ------------------------------- C26 ------------------------------------ *)
\* the summary handed in, and the same summary with another time series
Given == sentiment_data.val
GivenWith(ts) == [Given EXCEPT !.time_series = ts]
\* the tier by the thresholds, on the counts
TierByCounts ==
    IF Given.total > 0 /\ Given.positive * 100 >= 60 * Given.total THEN "positive"
    ELSE IF Given.total > 0 /\ Given.negative * 100 >= 40 * Given.total THEN "mixed"
    ELSE "balanced"
\* the nine f-strings, by tier and direction
NineTemplates ==
    [positive |-> [improving |-> 233, declining |-> 235, stable |-> 237],
     mixed |-> [improving |-> 241, declining |-> 243, stable |-> 245],
     balanced |-> [improving |-> 249, declining |-> 251, stable |-> 253]]

\* C26 (as stated): the tier is "predominantly positive" when posPct >= 60,
\* otherwise "mixed" when negPct >= 40, otherwise "balanced" (the percentages
\* being 0 when total is 0), and the text returned is one of nine, fixed by
\* the pair (tier, direction) alone up to the percentages: two summaries with
\* the same counts, tier and direction give the same text.
C26_TextByTierAndDirection ==
    Narrated =>
        /\ result.val.tier = TierByCounts
        /\ \A ts \in SeriesTried :
              LET other == generate_overall_analysis(GivenWith(ts))
              IN  (other.tier = result.val.tier /\ other.trend = result.val.trend)
                  => other = result.val

\* C26 (amended): the tier is chosen as stated, and the f-string filled is
\* one of nine, chosen by the pair (tier, direction) alone; besides the
\* percentages every f-string but the one of "mixed" and "improving" is
\* filled with the phrase about the trend, which for the direction "stable"
\* is "has remained relatively stable" when two or more values are valid and
\* "remained relatively stable" otherwise, so that each tier has two texts
\* for "stable".
C26_TemplateByTierAndDirection ==
    Narrated =>
        LET r == result.val
        IN  /\ r.tier = TierByCounts
            /\ r.template = NineTemplates[r.tier][r.trend]
            /\ r.trend_description =
                  IF r.template = 241 THEN ""
                  ELSE IF r.trend = "improving" THEN "has been improving"
                  ELSE IF r.trend = "declining" THEN "indicates declining sentiment"
                  ELSE IF Len(ValidIn) >= 2 THEN "has remained relatively stable"
                  ELSE "remained relatively stable"
            /\ Given.total = 0 => (r.tier = "balanced" /\ r.pos_pct = 0 /\ r.other_pct = 0)

C26_Witness ==
    /\ Narrated
    /\ Given.positive = 3 /\ Given.negative = 2 /\ Given.total = 5
    /\ Given.time_series = <<Data(13, 1), NoData>>
    /\ result.val.tier = "positive" /\ result.val.trend = "stable"
    /\ result.val.template = 237
    /\ result.val.trend_description = "remained relatively stable"
    /\ result.val.pos_pct = 60

(* --------------------------- C27, C28, C29 ------------------------------ *)
\* the entry of a region in the result mapping
EntryOf(region) ==
    comparison_data[CHOOSE j \in 1..Len(comparison_data) :
                        comparison_data[j].key = region].value
\* the summaries of the i-th region's videos that were included, in order
Included(i) ==
    LET kept == SelectSeq(region_log[i].analyses, LAMBDA a : a.some)
    IN  [j \in 1..Len(kept) |-> kept[j].val]
\* the turns of the loop that made an entry
Entered == {i \in 1..Len(region_log) : region_log[i].region \in KeysOf(comparison_data)}

\* C27: the video count recorded in a region's summary is the number of the
\* region's videos whose summaries were included in the aggregate; a video
\* whose analysis was absent is not counted.
C27_VideoCountIsIncluded ==
    Compared =>
        \A i \in Entered :
           EntryOf(region_log[i].region).video_count = Len(Included(i))

\* the sum of a count over the summaries included for the i-th region
SumOver(i, field) == SumSeq([j \in 1..Len(Included(i)) |-> Included(i)[j][field]])
RECURSIVE SumOfAverages(_)
\* the sum of the averages of a sequence of summaries, as [num, den]
SumOfAverages(ss) ==
    IF ss = <<>> THEN Frac(0, 1)
    ELSE LET a == Head(ss).avg_sentiment
             rest == SumOfAverages(Tail(ss))
         IN  Frac(a.num * rest.den + rest.num * a.den, a.den * rest.den)

\* C28: a region's summary has total, positive, neutral and negative equal
\* to the sums of these fields over the video summaries included, and
\* avgSentiment equal to the mean of the included videos' avgSentiment, each
\* video weighing the same whatever its number of comments; so positive +
\* neutral + negative = total in every region summary.
C28_RegionSumsAndUnweightedMean ==
    Compared =>
        \A i \in Entered :
           LET e == EntryOf(region_log[i].region)
               n == Len(Included(i))
               sum == SumOfAverages(Included(i))
           IN  /\ n >= 1
               /\ e.total = SumOver(i, "total")
               /\ e.positive = SumOver(i, "positive")
               /\ e.neutral = SumOver(i, "neutral")
               /\ e.negative = SumOver(i, "negative")
               /\ e.avg_sentiment.num * sum.den * n = sum.num * e.avg_sentiment.den
               /\ e.positive + e.neutral + e.negative = e.total

\* two videos included, of one and of three comments, averaging 0.80 and
\* -0.1333: the region's average is 0.3333, not the 0.10 of the four comments
C28_Witness ==
    /\ Compared
    /\ \E i \in Entered :
          LET e == EntryOf(region_log[i].region)
          IN  /\ Len(Included(i)) = 2
              /\ Included(i)[1].total = 1 /\ Included(i)[2].total = 3
              /\ e.total = 4 /\ e.positive = 2 /\ e.negative = 2
              /\ FracEq(e.avg_sentiment, Frac(100, 3))

(* ------------------------------- C29 ------------------------------------ *)
\* the insights have been taken
Shown == op = "compare" /\ insights.some
\* position of a region in the sequence of regions the helpers are given
PlaceOf(r) == CHOOSE j \in 1..Len(insights.val.regions) : insights.val.regions[j] = r
AvgOf(r) == EntryOf(r).avg_sentiment

\* C29: the most positive, most negative and most active region are regions
\* of the result mapping with maximal avgSentiment, minimal avgSentiment and
\* maximal total; among the regions tied for it each is the one that comes
\* first in the sequence of regions, which lists the result mapping in the
\* order in which the regions were selected.
C29_FirstBestWorstMostActive ==
    Shown =>
        LET v == insights.val
            all == KeysOf(comparison_data)
        IN  /\ v.regions = SelectSeq(selected_comparison_regions, LAMBDA r : r \in all)
            /\ v.best_region \in all /\ v.worst_region \in all /\ v.most_comments \in all
            /\ \A r \in all :
                  /\ FracGe(AvgOf(v.best_region), AvgOf(r))
                  /\ FracEq(AvgOf(r), AvgOf(v.best_region))
                        => PlaceOf(v.best_region) <= PlaceOf(r)
                  /\ FracGe(AvgOf(r), AvgOf(v.worst_region))
                  /\ FracEq(AvgOf(r), AvgOf(v.worst_region))
                        => PlaceOf(v.worst_region) <= PlaceOf(r)
                  /\ EntryOf(v.most_comments).total >= EntryOf(r).total
                  /\ EntryOf(r).total = EntryOf(v.most_comments).total
                        => PlaceOf(v.most_comments) <= PlaceOf(r)

\* three regions, the last two tied for the lowest average and for the most
\* comments
C29_Witness ==
    /\ Shown
    /\ insights.val.regions = <<"India", "Canada", "United States">>
    /\ FracGt(AvgOf("India"), AvgOf("Canada"))
    /\ FracEq(AvgOf("Canada"), AvgOf("United States"))
    /\ EntryOf("Canada").total = EntryOf("United States").total
    /\ EntryOf("Canada").total > EntryOf("India").total
    /\ insights.val.best_region = "India"
    /\ insights.val.worst_region = "Canada"
    /\ insights.val.most_comments = "Canada"

(* ------------------------------- C30 ------------------------------------ *)
\* the orders in which n fetched comments may come
Orders(n) == {f \in [1..n -> 1..n] : \A i, j \in 1..n : f[i] = f[j] => i = j}
Reordered(items, f) == [j \in 1..Len(items) |-> items[f[j]]]
SameSlots(a, b) ==
    /\ Len(a) = Len(b)
    /\ \A k \in 1..Len(a) :
          /\ a[k].some <=> b[k].some
          /\ a[k].some => FracEq(a[k], b[k])

\* C30: the summary analyze_video_sentiment returns does not depend on the
\* order of the fetched comments: the same comments in any other order give
\* the same total and category counts, the same populated slots of the time
\* series with equal means, and an equal avgSentiment.
C30_OrderIndependent ==
    (Analyzed /\ outcome = "returned") =>
        \A f \in Orders(Len(result.val)) :
           LET other == analyze_items(Reordered(result.val, f))
           IN  /\ ~other.raised
               /\ other.ret.some <=> summary.some
               /\ summary.some =>
                     /\ other.ret.val.total = summary.val.total
                     /\ other.ret.val.positive = summary.val.positive
                     /\ other.ret.val.neutral = summary.val.neutral
                     /\ other.ret.val.negative = summary.val.negative
                     /\ FracEq(other.ret.val.avg_sentiment, summary.val.avg_sentiment)
                     /\ SameSlots(other.ret.val.time_series, summary.val.time_series)

====
